---- MODULE Spec2Model ----
(***************************************************************************)
(* rocPRIM device-level segmented radix sort: the host orchestration of    *)
(* segmented_radix_sort_impl (sizing, storage carving, segment             *)
(* classification, kernel dispatch on one ordered stream) and the API      *)
(* wrappers around it, with the device kernels as worker groups that       *)
(* execute one radix pass per step.                                        *)
(***************************************************************************)
EXTENDS Integers, Sequences, FiniteSets, TLC

\* ------------------------------------------------------------------ bounds
MaxSize == 3          \* elements in the flat key/value arrays
MaxSegments == 2      \* segments per call
MaxEndBit == 3        \* largest end_bit of a call (at most KeyBits)
MaxRadixBits == 4     \* largest radix width of the schedule-only calls
MaxCalls == 2         \* calls made on one double-buffer handle

\* ------------------------------------------------------- program constants
hipSuccess == 0
SizeofIndex == 4      \* sizeof(segment_index_type), unsigned int
SizeofKey == 1        \* sizeof(key_type): an 8-bit unsigned key
KeyBits == 8          \* 8 * sizeof(Key), the default end_bit
SizeofValue == 4      \* sizeof(value_type)
Alignment == 256      \* default alignment of detail::align_size
Sentinel == 4         \* size reported instead of 0

ErrorCodes == {1, 2}  \* two distinct hipError_t values other than hipSuccess
Junk == -1            \* content of memory the caller never initialised
Nullptr == "null"

Buffers == {"A", "B", "T"}   \* A, B: caller arrays; T: scratch in temporary storage

VARIABLES
    call,                \* arguments of the API call
    config,              \* the resolved configuration (template parameter)
    faults,              \* whether device operations of this run may fail
    kmem, vmem,          \* contents of the key / value buffers
    keys_sel, values_sel,\* double_buffer handles: 1 -> current is A, 2 -> current is B
    storage_size,        \* the in/out size_t& of the call
    pc,                  \* host position inside the call
    result,              \* returned hipError_t
    is_result_in_output, \* the bool& out-parameter of the impl
    carved,              \* byte offsets of the regions carved from temporary storage
    segment_indices,     \* large_segment_indices_output (device scratch)
    device_count,        \* *large_segment_count_output (device scratch)
    large_segment_count, \* host copy read back from the device
    stream,              \* kernels enqueued on the stream, oldest first
    ops                  \* device operations issued by the host, in order

vars == <<call, config, faults, kmem, vmem, keys_sel, values_sel, storage_size, pc,
          result, is_result_in_output, carved, segment_indices, device_count,
          large_segment_count, stream, ops>>

\* ------------------------------------------------------------ arithmetic
Min(a, b) == IF a < b THEN a ELSE b

\* ::rocprim::detail::ceiling_div
CeilingDiv(a, b) == (a + b - 1) \div b

\* ::rocprim::detail::align_size
AlignSize(n) == CeilingDiv(n, Alignment) * Alignment

\* ------------------------------------------- locals of segmented_radix_sort_impl
with_double_buffer == call.shape = "double"
with_values == call.with_values
partitioning_allowed == config.warp_enabled
\* faulty variant of max_small_segment_length: the capacity of a whole block
max_small_segment_length_of_block == config.items_per_thread * config.warp_block_size
max_small_segment_length == config.items_per_thread * config.logical_warp_size
small_segments_per_block == config.warp_block_size \div config.logical_warp_size

SegmentLength(i) == call.end_offsets[i] - call.begin_offsets[i]

\* faulty variant of large_segment_selector: the comparison is not strict
large_segment_selector_not_strict(i) == SegmentLength(i) >= max_small_segment_length
large_segment_selector(i) == SegmentLength(i) > max_small_segment_length

bits == call.end_bit - call.begin_bit
\* faulty variant of iterations: rounded down, plus one
iterations_floor_plus_one == bits \div config.long_radix_bits + 1
iterations == CeilingDiv(bits, config.long_radix_bits)
\* faulty variant of to_output: the first pass always writes the output
to_output_from_first_pass == TRUE
\* faulty variant of to_output: the double-buffer shape is not told apart
to_output_without_double_buffer == (iterations - 1) % 2 = 0
\* faulty variant of to_output: the parity of the pass count is inverted
to_output_inverted == with_double_buffer \/ iterations % 2 = 0
to_output == with_double_buffer \/ (iterations - 1) % 2 = 0
\* faulty variant of IsResultInOutput: the first pass's direction is ignored
IsResultInOutput_parity_only == iterations % 2 = 0
IsResultInOutput == (iterations % 2 = 0) # to_output
radix_bits_diff == config.long_radix_bits - config.short_radix_bits
\* faulty variant of short_iterations: the quotient is rounded up
short_iterations_rounded_up ==
    IF radix_bits_diff # 0
    THEN Min(iterations,
             CeilingDiv(config.long_radix_bits * iterations - bits, radix_bits_diff))
    ELSE 0
\* faulty variant of short_iterations: one short pass fewer than the quotient allows
short_iterations_one_fewer ==
    IF radix_bits_diff # 0
    THEN LET q == Min(iterations,
                      (config.long_radix_bits * iterations - bits) \div radix_bits_diff)
         IN  IF q > 0 THEN q - 1 ELSE 0
    ELSE 0
short_iterations ==
    IF radix_bits_diff # 0
    THEN Min(iterations, (config.long_radix_bits * iterations - bits) \div radix_bits_diff)
    ELSE 0
long_iterations == iterations - short_iterations
\* faulty variant of do_partitioning: the segment-count threshold is ignored
do_partitioning_without_threshold == partitioning_allowed
do_partitioning ==
    partitioning_allowed /\ call.segments >= config.partitioning_threshold

\* faulty variant of keys_bytes: the size is not aligned
keys_bytes_unaligned == call.size * SizeofKey
keys_bytes == AlignSize(call.size * SizeofKey)
values_bytes == IF with_values THEN AlignSize(call.size * SizeofValue) ELSE 0
\* faulty variant of segment_indices_bytes: sized by the last end offset
segment_indices_bytes_from_offsets ==
    AlignSize((IF call.segments = 0 THEN 0 ELSE call.end_offsets[call.segments])
              * SizeofIndex)
segment_indices_bytes == AlignSize(call.segments * SizeofIndex)
large_segment_count_bytes == AlignSize(SizeofIndex)

\* temporary storage the partition primitive asks for (external collaborator)
PartitionStorageSize(n) == AlignSize(n * SizeofIndex) + Alignment

\* ------------------------------------------------------- device kernels
\* the digit of key k at bits [bit, bit + width)
Digit(k, bit, width) == (k \div (2^bit)) % (2^width)

\* positions of keys whose digit is d, in increasing order
IndicesWithDigit(keys, bit, width, d) ==
    SelectSeq([i \in 1..Len(keys) |-> i], LAMBDA i : Digit(keys[i], bit, width) = d)

\* one digit pass (bucket count + scatter): the source positions in output
\* order, buckets taken in ascending (descending) digit order, each bucket
\* in source order; n is the number of buckets already emitted
RECURSIVE ScatterOrder(_, _, _, _, _)
ScatterOrder(keys, bit, width, desc, n) ==
    IF n = 0 THEN <<>>
    ELSE ScatterOrder(keys, bit, width, desc, n - 1)
         \o IndicesWithDigit(keys, bit, width, IF desc THEN 2^width - n ELSE n - 1)

DigitPassOrder(keys, bit, width, desc) == ScatterOrder(keys, bit, width, desc, 2^width)

\* comparison of the single-step sort: key a goes strictly before key b
KeyBefore(a, b, desc) ==
    LET da == Digit(a, call.begin_bit, bits)
        db == Digit(b, call.begin_bit, bits)
    IN  IF desc THEN da > db ELSE da < db

\* stable insertion of position i into an already ordered list of positions
RECURSIVE InsertStable(_, _, _, _)
InsertStable(order, i, keys, desc) ==
    IF order = <<>> THEN <<i>>
    ELSE IF KeyBefore(keys[i], keys[order[Len(order)]], desc)
         THEN Append(InsertStable(SubSeq(order, 1, Len(order) - 1), i, keys, desc),
                     order[Len(order)])
         ELSE Append(order, i)

\* the single-step sort of the small-segment strategy: source positions in
\* output order
RECURSIVE SingleSortOrder(_, _, _)
SingleSortOrder(keys, desc, n) ==
    IF n = 0 THEN <<>>
    ELSE InsertStable(SingleSortOrder(keys, desc, n - 1), n, keys, desc)

Gather(src, order) == [i \in 1..Len(order) |-> src[order[i]]]

\* mem with seq written to buffer buf at element offset b
WriteSeg(mem, buf, b, seq) ==
    [mem EXCEPT ![buf] =
        [i \in 1..Len(@) |-> IF i > b /\ i <= b + Len(seq) THEN seq[i - b] ELSE @[i]]]

\* pass p (0-based) of a segment's schedule: long passes first, then short
PassWidth(p) ==
    IF p < long_iterations THEN config.long_radix_bits ELSE config.short_radix_bits
PassBit(p) ==
    call.begin_bit
    + (IF p < long_iterations
       THEN p * config.long_radix_bits
       ELSE long_iterations * config.long_radix_bits
            + (p - long_iterations) * config.short_radix_bits)

\* bits pass p processes: its width, cut off at end_bit
CurrentRadixBits(p) == Min(PassWidth(p), call.end_bit - PassBit(p))

\* to_output as the kernel sees it at pass p: flipped after every pass
ToOutputAt(k, p) == IF p % 2 = 0 THEN k.to_output ELSE ~k.to_output

\* buffers pass p of kernel k reads and writes (keys: which = "keys")
PassSource(k, p, which) ==
    IF PassBit(p) = call.begin_bit THEN k[which].input
    ELSE IF ToOutputAt(k, p) THEN k[which].tmp ELSE k[which].output
PassDest(k, p, which) ==
    IF ToOutputAt(k, p) THEN k[which].output ELSE k[which].tmp

\* faulty variant of GroupSteps: a worker group leaves out its last pass
GroupSteps_without_last_pass(k, g) ==
    IF g > Len(k.segs) THEN 0
    ELSE IF call.end_offsets[k.segs[g]] <= call.begin_offsets[k.segs[g]] THEN 0
    ELSE IF k.kind = "small" THEN 1
    ELSE long_iterations + short_iterations - 1
\* number of steps group g of kernel k performs on its segment
GroupSteps(k, g) ==
    IF g > Len(k.segs) THEN 0
    ELSE IF call.end_offsets[k.segs[g]] <= call.begin_offsets[k.segs[g]] THEN 0
    ELSE IF k.kind = "small" THEN 1
    ELSE long_iterations + short_iterations

KernelFinished(k) == \A g \in 1..Len(k.done) : k.done[g] >= GroupSteps(k, g)

\* ------------------------------------------------------------- inputs
\* key values the arrays are drawn from: every bit range below bit 3 has
\* two different keys that tie on it, and 9 has a bit above the range
KeySamples == {1, 2, 5, 9}

\* 0 <= begin_bit < end_bit <= 8 * sizeof(Key), from bit 0 or bit 1
BitRanges == {r \in {0, 1} \X (1..MaxEndBit) : r[1] < r[2] /\ r[2] <= KeyBits}

\* bit ranges [0, 1) and [0, 2): with one-bit passes, an odd and an even
\* number of passes
ControlBitRanges == {r \in BitRanges : r[1] = 0 /\ r[2] <= 2}

\* (long_radix_bits, short_radix_bits) of a configuration
RadixConfigs == {<<1, 1>>, <<2, 1>>, <<2, 2>>}

\* warp_sort_config: DisabledWarpSortConfig, or a small-segment backend
DisabledWarpSortConfig ==
    [warp_enabled |-> FALSE, items_per_thread |-> 1, logical_warp_size |-> 1,
     warp_block_size |-> 1, partitioning_threshold |-> 0]
WarpSortConfig(w, t) ==
    [warp_enabled |-> TRUE, items_per_thread |-> 1, logical_warp_size |-> w,
     warp_block_size |-> 2, partitioning_threshold |-> t]
WarpConfigs ==
    {DisabledWarpSortConfig} \cup {WarpSortConfig(w, t) : w \in {1, 2}, t \in {1, 2}}

Config(r, w) ==
    [long_radix_bits |-> r[1], short_radix_bits |-> r[2],
     warp_enabled |-> w.warp_enabled, items_per_thread |-> w.items_per_thread,
     logical_warp_size |-> w.logical_warp_size, warp_block_size |-> w.warp_block_size,
     partitioning_threshold |-> w.partitioning_threshold]

\* segment lists over n elements, given as one offsets array of m + 1
\* non-decreasing entries (begin_offsets = offsets, end_offsets = offsets + 1):
\* segments in array order, possibly empty, possibly not covering the array
Offsets(n) ==
    UNION {{o \in [1..(m + 1) -> 0..n] : \A i \in 1..m : o[i] <= o[i + 1]} :
           m \in 0..MaxSegments}
Segments(o) == [i \in 1..(Len(o) - 1) |-> <<o[i], o[i + 1]>>]
Segmentations(n) == {Segments(o) : o \in Offsets(n)}

\* the segment lists that tile the whole array, as the tests generate them
Tilings(n) == {s \in Segmentations(n) : s # <<>> /\ s[1][1] = 0 /\ s[Len(s)][2] = n}

\* the sort calls: the whole array as one segment on the uniform path, or
\* split after its first element, with both parts on the small-segment
\* path or with the second part on the large-segment path
DataCalls(n) ==
    {<<(<< <<0, n>> >>), DisabledWarpSortConfig>>}
    \cup (IF n < 2 THEN {}
          ELSE {<<(<< <<0, 1>>, <<1, n>> >>),
                  [WarpSortConfig(1, 1) EXCEPT !.items_per_thread = n - 1]>>,
                <<(<< <<0, 1>>, <<1, n>> >>), WarpSortConfig(1, 1)>>})

\* the key array of the orchestration calls
ControlKeys(n) == [i \in 1..n |-> <<7, 4, 2, 1>>[((i - 1) % 4) + 1]]

Iota(n) == [i \in 1..n |-> i - 1]
JunkSeq(n) == [i \in 1..n |-> Junk]

\* the state at the entry of one API call
InitCall(keys, segs, range, cfg, shape, descending, values, storage, debug, mayfail) ==
    LET n == Len(keys) IN
    /\ call = [shape |-> shape, descending |-> descending, with_values |-> values,
               temporary_storage |-> storage, size |-> n, segments |-> Len(segs),
               keys |-> keys,   \* the contents of the input array at entry
               round |-> 1,     \* 1 + the calls already made on the handles
               entry |-> [keys |-> 1, values |-> 1],  \* selectors at entry
               \* what current() held when the previous call returned
               previous |-> [keys |-> <<>>, values |-> <<>>],
               begin_offsets |-> [i \in 1..Len(segs) |-> segs[i][1]],
               end_offsets |-> [i \in 1..Len(segs) |-> segs[i][2]],
               begin_bit |-> range[1], end_bit |-> range[2],
               debug_synchronous |-> debug]
    /\ config = cfg
    /\ faults = mayfail
    /\ kmem = [b \in Buffers |-> IF b = "A" THEN keys ELSE JunkSeq(n)]
    /\ vmem = [b \in Buffers |->
                 IF ~values THEN <<>> ELSE IF b = "A" THEN Iota(n) ELSE JunkSeq(n)]
    /\ keys_sel = 1
    /\ values_sel = 1
    /\ storage_size = 0
    /\ pc = "impl"
    /\ result = hipSuccess
    /\ is_result_in_output = FALSE
    /\ carved = [keys_tmp |-> -1, values_tmp |-> -1, large_segment_indices_output |-> -1,
                 large_segment_count_output |-> -1, partition_storage |-> -1]
    /\ segment_indices = <<>>
    /\ device_count = Junk
    /\ large_segment_count = 0
    /\ stream = <<>>
    /\ ops = <<>>

\* ---------------------------------------------------------- API wrappers
\* faulty variant of Descending: the _desc entry points sort ascending
Descending_ignored == FALSE
\* the Descending template argument the entry point passes to the impl
Descending == call.descending

\* double_buffer<T>::current() / alternate() of a handle with selector sel
Current(sel) == IF sel = 1 THEN "A" ELSE "B"
Alternate(sel) == IF sel = 1 THEN "B" ELSE "A"

\* faulty variant of KeyPointers: the double-buffer overloads pass current()
\* where they should pass alternate()
KeyPointers_output_is_current ==
    IF with_double_buffer
    THEN [input |-> Current(keys_sel), tmp |-> Current(keys_sel),
          output |-> Current(keys_sel)]
    ELSE [input |-> "A", tmp |-> "T", output |-> "B"]
\* faulty variant of KeyPointers: the scratch of the separate-output shape
\* is the input buffer
KeyPointers_scratch_is_input ==
    IF with_double_buffer
    THEN [input |-> Current(keys_sel), tmp |-> Current(keys_sel),
          output |-> Alternate(keys_sel)]
    ELSE [input |-> "A", tmp |-> "A", output |-> "B"]
\* faulty variant of KeyPointers: the double-buffer overloads pass
\* alternate() as scratch
KeyPointers_tmp_is_alternate ==
    IF with_double_buffer
    THEN [input |-> Current(keys_sel), tmp |-> Alternate(keys_sel),
          output |-> Alternate(keys_sel)]
    ELSE [input |-> "A", tmp |-> "T", output |-> "B"]
\* the (input, tmp, output) pointers the kernels receive: the wrappers pass
\* (keys_input, nullptr, keys_output) or (current, current, alternate), and
\* the impl points a null tmp into temporary storage
KeyPointers ==
    IF with_double_buffer
    THEN [input |-> Current(keys_sel), tmp |-> Current(keys_sel),
          output |-> Alternate(keys_sel)]
    ELSE [input |-> "A", tmp |-> "T", output |-> "B"]
\* faulty variant of ValuePointers: in the separate-output shape the output
\* and scratch pointers of the values are exchanged
ValuePointers_output_is_scratch ==
    IF with_double_buffer
    THEN [input |-> Current(values_sel), tmp |-> Current(values_sel),
          output |-> Alternate(values_sel)]
    ELSE [input |-> "A", tmp |-> "B", output |-> "T"]
ValuePointers ==
    IF with_double_buffer
    THEN [input |-> Current(values_sel), tmp |-> Current(values_sel),
          output |-> Alternate(values_sel)]
    ELSE [input |-> "A", tmp |-> "T", output |-> "B"]

\* ------------------------------------------------------------ host steps
\* result codes a device operation can end with
Outcomes == IF faults THEN {hipSuccess} \cup ErrorCodes ELSE {hipSuccess}

\* faulty variant of Failed: no result code is checked
Failed_unchecked(rc) == FALSE
\* the test every checked device operation is followed by
Failed(rc) == rc # hipSuccess

Issued(name, n, rc) == Append(ops, [op |-> name, n |-> n, rc |-> rc])

\* `return error;` of the impl
ReturnWith(rc) ==
    /\ result' = rc
    /\ pc' = "ret"

\* faulty variant of SizingTotal: a requirement of 0 is reported as 0
SizingTotal_without_sentinel ==
    LET base == IF with_double_buffer THEN 0 ELSE keys_bytes + values_bytes
    IN  IF do_partitioning
        THEN base + segment_indices_bytes + large_segment_count_bytes
             + PartitionStorageSize(call.segments)
        ELSE base
\* storage_size as the sizing branch leaves it when everything succeeds
SizingTotal ==
    LET base == IF with_double_buffer THEN 0 ELSE keys_bytes + values_bytes
        total == IF do_partitioning
                 THEN base + segment_indices_bytes + large_segment_count_bytes
                      + PartitionStorageSize(call.segments)
                 ELSE base
    IN  IF total = 0 THEN Sentinel ELSE total

\* temporary_storage == nullptr: the size query
SizeQuery ==
    /\ pc = "impl"
    /\ call.temporary_storage = Nullptr
    /\ is_result_in_output' = IsResultInOutput
    /\ IF do_partitioning
       THEN \E rc \in Outcomes :
              /\ ops' = Issued("partition_size", call.segments, rc)
              /\ storage_size' =
                   IF ~Failed(rc) THEN SizingTotal
                   ELSE (IF with_double_buffer THEN 0 ELSE keys_bytes + values_bytes)
                        + segment_indices_bytes + large_segment_count_bytes
              /\ ReturnWith(rc)
       ELSE /\ storage_size' = SizingTotal
            /\ ReturnWith(hipSuccess)
            /\ UNCHANGED ops
    /\ UNCHANGED <<call, config, faults, kmem, vmem, keys_sel, values_sel, carved,
                   segment_indices, device_count, large_segment_count, stream>>

\* faulty variant of NothingToSort: the element count is tested instead
NothingToSort_by_size == call.size = 0
\* the test of the early return: segments == 0u
NothingToSort == call.segments = 0

EmptyReturn ==
    /\ pc = "impl"
    /\ call.temporary_storage # Nullptr
    /\ NothingToSort
    /\ is_result_in_output' = IsResultInOutput
    /\ ReturnWith(hipSuccess)
    /\ UNCHANGED <<call, config, faults, kmem, vmem, keys_sel, values_sel, storage_size,
                   carved, segment_indices, device_count, large_segment_count, stream,
                   ops>>

\* faulty variant of Carve: the cursor is not advanced over the value scratch
Carve_without_value_scratch ==
    LET k0 == 0
        v0 == k0 + (IF with_double_buffer THEN 0 ELSE keys_bytes)
        i0 == v0
        c0 == i0 + segment_indices_bytes
        p0 == c0 + large_segment_count_bytes
    IN  [keys_tmp |-> IF with_double_buffer THEN -1 ELSE k0,
         values_tmp |-> IF with_double_buffer \/ ~with_values THEN -1 ELSE v0,
         large_segment_indices_output |-> i0,
         large_segment_count_output |-> c0,
         partition_storage |-> p0]
\* the running byte cursor over temporary_storage
Carve ==
    LET k0 == 0
        v0 == k0 + (IF with_double_buffer THEN 0 ELSE keys_bytes)
        i0 == v0 + (IF with_double_buffer THEN 0 ELSE values_bytes)
        c0 == i0 + segment_indices_bytes
        p0 == c0 + large_segment_count_bytes
    IN  [keys_tmp |-> IF with_double_buffer THEN -1 ELSE k0,
         values_tmp |-> IF with_double_buffer \/ ~with_values THEN -1 ELSE v0,
         large_segment_indices_output |-> i0,
         large_segment_count_output |-> c0,
         partition_storage |-> p0]

\* the debug parameter dump with its synchronization, then the carving
Begin ==
    /\ pc = "impl"
    /\ call.temporary_storage # Nullptr
    /\ ~NothingToSort
    /\ is_result_in_output' = IsResultInOutput
    /\ \E rc \in (IF call.debug_synchronous THEN Outcomes ELSE {hipSuccess}) :
         /\ ops' = IF call.debug_synchronous THEN Issued("sync", 0, rc) ELSE ops
         /\ IF Failed(rc)
            THEN ReturnWith(rc) /\ UNCHANGED carved
            ELSE /\ carved' = Carve
                 /\ pc' = IF do_partitioning THEN "partition" ELSE "uniform"
                 /\ UNCHANGED result
    /\ UNCHANGED <<call, config, faults, kmem, vmem, keys_sel, values_sel, storage_size,
                   segment_indices, device_count, large_segment_count, stream>>

\* the stable partition of the counting iterator [0, n) by the selector:
\* selected indices first, then the rest, both in original order
PartitionIndices(n) ==
    LET all == [i \in 1..n |-> i]
    IN  SelectSeq(all, large_segment_selector)
        \o SelectSeq(all, LAMBDA i : ~large_segment_selector(i))
PartitionCount(n) == Cardinality({i \in 1..n : large_segment_selector(i)})

\* faulty variant of Partition: its result code is not checked
Partition_unchecked ==
    /\ pc = "partition"
    /\ \E rc \in Outcomes :
         /\ ops' = Issued("partition", call.segments, rc)
         /\ segment_indices' = PartitionIndices(call.segments)
         /\ device_count' = PartitionCount(call.segments)
         /\ pc' = "memcpy"
         /\ UNCHANGED result
    /\ UNCHANGED <<call, config, faults, kmem, vmem, keys_sel, values_sel, storage_size,
                   is_result_in_output, carved, large_segment_count, stream>>

Partition ==
    /\ pc = "partition"
    /\ \E rc \in Outcomes :
         /\ ops' = Issued("partition", call.segments, rc)
         /\ IF Failed(rc)
            THEN ReturnWith(rc) /\ UNCHANGED <<segment_indices, device_count>>
            ELSE /\ segment_indices' = PartitionIndices(call.segments)
                 /\ device_count' = PartitionCount(call.segments)
                 /\ pc' = "memcpy"
                 /\ UNCHANGED result
    /\ UNCHANGED <<call, config, faults, kmem, vmem, keys_sel, values_sel, storage_size,
                   is_result_in_output, carved, large_segment_count, stream>>

\* faulty variant of CopyCount: the host does not wait for the copy
CopyCount_without_sync ==
    /\ pc = "memcpy"
    /\ \E rc \in Outcomes :
         /\ ops' = Issued("memcpy", 1, rc)
         /\ IF Failed(rc) THEN ReturnWith(rc)
            ELSE pc' = "large" /\ UNCHANGED result
    /\ UNCHANGED <<call, config, faults, kmem, vmem, keys_sel, values_sel, storage_size,
                   is_result_in_output, carved, segment_indices, device_count,
                   large_segment_count, stream>>
\* hipMemcpyAsync of the large-segment count
CopyCount ==
    /\ pc = "memcpy"
    /\ \E rc \in Outcomes :
         /\ ops' = Issued("memcpy", 1, rc)
         /\ IF Failed(rc) THEN ReturnWith(rc)
            ELSE pc' = "sync" /\ UNCHANGED result
    /\ UNCHANGED <<call, config, faults, kmem, vmem, keys_sel, values_sel, storage_size,
                   is_result_in_output, carved, segment_indices, device_count,
                   large_segment_count, stream>>

\* hipStreamSynchronize: the host waits until the stream has drained
SyncCount ==
    /\ pc = "sync"
    /\ stream = <<>>
    /\ \E rc \in Outcomes :
         /\ ops' = Issued("sync", 0, rc)
         /\ IF Failed(rc)
            THEN ReturnWith(rc) /\ UNCHANGED large_segment_count
            ELSE /\ large_segment_count' = device_count
                 /\ pc' = "large"
                 /\ UNCHANGED result
    /\ UNCHANGED <<call, config, faults, kmem, vmem, keys_sel, values_sel, storage_size,
                   is_result_in_output, carved, segment_indices, device_count, stream>>

\* a kernel as enqueued on the stream: its arguments and, per worker group
\* (per sub-group for the small kernel), the number of steps already done
Kernel(kind, flag, segs, groups) ==
    [kind |-> kind, to_output |-> flag, keys |-> KeyPointers, values |-> ValuePointers,
     segs |-> segs, done |-> [g \in 1..groups |-> 0]]

Enqueue(k) == IF KernelFinished(k) THEN stream ELSE Append(stream, k)

\* faulty variant of Launch: the debug branch of the macro is missing
Launch_without_debug_sync(k, grid, after) ==
    \E rc \in Outcomes :
      /\ ops' = Issued(k.kind, grid, rc)
      /\ IF Failed(rc)
         THEN ReturnWith(rc) /\ UNCHANGED stream
         ELSE /\ stream' = Enqueue(k)
              /\ IF after = "ret" THEN ReturnWith(hipSuccess)
                 ELSE pc' = after /\ UNCHANGED result

\* hipLaunchKernelGGL followed by ROCPRIM_DETAIL_HIP_SYNC_AND_RETURN_ON_ERROR:
\* hipGetLastError, then in debug mode a synchronization (DebugSync)
Launch(k, grid, after) ==
    \E rc \in Outcomes :
      /\ ops' = Issued(k.kind, grid, rc)
      /\ IF Failed(rc)
         THEN ReturnWith(rc) /\ UNCHANGED stream
         ELSE /\ stream' = Enqueue(k)
              /\ IF call.debug_synchronous
                 THEN pc' = k.kind \o "_sync" /\ UNCHANGED result
                 ELSE IF after = "ret" THEN ReturnWith(hipSuccess)
                 ELSE pc' = after /\ UNCHANGED result

\* faulty variant of LargeKernelFlag: the small kernel's argument is passed
LargeKernelFlag_as_small == is_result_in_output
\* the to_output argument of the large-segment kernel
LargeKernelFlag == to_output

\* faulty variant of LaunchLarge: the large kernel is given every segment
LaunchLarge_all_segments ==
    /\ pc = "large"
    /\ IF large_segment_count > 0
       THEN Launch(Kernel("large", LargeKernelFlag, segment_indices, call.segments),
                   call.segments, "small")
       ELSE pc' = "small" /\ UNCHANGED <<result, stream, ops>>
    /\ UNCHANGED <<call, config, faults, kmem, vmem, keys_sel, values_sel, storage_size,
                   is_result_in_output, carved, segment_indices, device_count,
                   large_segment_count>>

LaunchLarge ==
    /\ pc = "large"
    /\ IF large_segment_count > 0
       THEN Launch(Kernel("large", LargeKernelFlag,
                          SubSeq(segment_indices, 1, large_segment_count),
                          large_segment_count),
                   large_segment_count, "small")
       ELSE pc' = "small" /\ UNCHANGED <<result, stream, ops>>
    /\ UNCHANGED <<call, config, faults, kmem, vmem, keys_sel, values_sel, storage_size,
                   is_result_in_output, carved, segment_indices, device_count,
                   large_segment_count>>

\* faulty variant of SmallKernelFlag: the large kernel's argument is passed
SmallKernelFlag_as_large == to_output
\* the to_output argument of the small-segment kernel
SmallKernelFlag == is_result_in_output

\* faulty variant of SmallSegmentIndices: the offset by large_segment_count
\* is missing
SmallSegmentIndices_from_start ==
    SubSeq(segment_indices, 1, call.segments - large_segment_count)
\* faulty variant of SmallSegmentIndices: the last large segment is included
SmallSegmentIndices_from_last_large ==
    SubSeq(segment_indices, IF large_segment_count > 0 THEN large_segment_count ELSE 1,
           call.segments)
\* large_segment_indices_output + large_segment_count
SmallSegmentIndices ==
    SubSeq(segment_indices, large_segment_count + 1, call.segments)

LaunchSmall ==
    /\ pc = "small"
    /\ LET small_segment_count == call.segments - large_segment_count
           small_segment_grid_size ==
               CeilingDiv(small_segment_count, small_segments_per_block)
       IN  IF small_segment_count > 0
           THEN Launch(Kernel("small", SmallKernelFlag, SmallSegmentIndices,
                              small_segment_grid_size * small_segments_per_block),
                       small_segment_grid_size, "ret")
           ELSE ReturnWith(hipSuccess) /\ UNCHANGED <<stream, ops>>
    /\ UNCHANGED <<call, config, faults, kmem, vmem, keys_sel, values_sel, storage_size,
                   is_result_in_output, carved, segment_indices, device_count,
                   large_segment_count>>

LaunchUniform ==
    /\ pc = "uniform"
    /\ Launch(Kernel("uniform", to_output, [i \in 1..call.segments |-> i],
                     call.segments),
              call.segments, "ret")
    /\ UNCHANGED <<call, config, faults, kmem, vmem, keys_sel, values_sel, storage_size,
                   is_result_in_output, carved, segment_indices, device_count,
                   large_segment_count>>

\* faulty variant of DebugSync: the call returns after the synchronization
\* that follows the large-segment dispatch
DebugSync_returns_early ==
    /\ pc \in {"large_sync", "small_sync", "uniform_sync"}
    /\ stream = <<>>
    /\ \E rc \in Outcomes :
         /\ ops' = Issued("sync", 0, rc)
         /\ IF Failed(rc) THEN ReturnWith(rc) ELSE ReturnWith(hipSuccess)
    /\ UNCHANGED <<call, config, faults, kmem, vmem, keys_sel, values_sel, storage_size,
                   is_result_in_output, carved, segment_indices, device_count,
                   large_segment_count, stream>>
\* the debug_synchronous branch of the macro after a launch
DebugSync ==
    /\ pc \in {"large_sync", "small_sync", "uniform_sync"}
    /\ stream = <<>>
    /\ \E rc \in Outcomes :
         /\ ops' = Issued("sync", 0, rc)
         /\ IF Failed(rc) THEN ReturnWith(rc)
            ELSE IF pc = "large_sync" THEN pc' = "small" /\ UNCHANGED result
            ELSE ReturnWith(hipSuccess)
    /\ UNCHANGED <<call, config, faults, kmem, vmem, keys_sel, values_sel, storage_size,
                   is_result_in_output, carved, segment_indices, device_count,
                   large_segment_count, stream>>

\* faulty variant of SwapCondition: a sizing call swaps too
SwapCondition_any_call == is_result_in_output
\* faulty variant of SwapCondition: the handles are left alone after an error
SwapCondition_only_on_success ==
    call.temporary_storage # Nullptr /\ is_result_in_output /\ result = hipSuccess
\* the test the double-buffer overloads swap their handles on
SwapCondition == call.temporary_storage # Nullptr /\ is_result_in_output

\* faulty variant of ApiReturn: only the key handle is swapped
ApiReturn_keys_only ==
    /\ pc = "ret"
    /\ pc' = "done"
    /\ IF with_double_buffer /\ SwapCondition
       THEN keys_sel' = 3 - keys_sel /\ UNCHANGED values_sel
       ELSE UNCHANGED <<keys_sel, values_sel>>
    /\ UNCHANGED <<call, config, faults, kmem, vmem, storage_size, result,
                   is_result_in_output, carved, segment_indices, device_count,
                   large_segment_count, stream, ops>>
\* the wrapper after the impl returned: the double-buffer overloads swap
ApiReturn ==
    /\ pc = "ret"
    /\ pc' = "done"
    /\ IF with_double_buffer /\ SwapCondition
       THEN /\ keys_sel' = 3 - keys_sel
            /\ values_sel' = IF with_values THEN 3 - values_sel ELSE values_sel
       ELSE UNCHANGED <<keys_sel, values_sel>>
    /\ UNCHANGED <<call, config, faults, kmem, vmem, storage_size, result,
                   is_result_in_output, carved, segment_indices, device_count,
                   large_segment_count, stream, ops>>

\* the caller sorts again with the handles the previous call left: the same
\* arguments, the same temporary storage, the handles as they are now
CallAgain ==
    /\ pc = "done"
    /\ stream = <<>>
    /\ with_double_buffer
    /\ call.temporary_storage # Nullptr
    /\ ~call.descending
    /\ result = hipSuccess
    /\ call.round < MaxCalls
    /\ call' = [call EXCEPT !.round = @ + 1,
                            !.entry = [keys |-> keys_sel, values |-> values_sel],
                            !.previous = [keys |-> kmem[Current(keys_sel)],
                                          values |-> vmem[Current(values_sel)]]]
    /\ pc' = "impl"
    /\ is_result_in_output' = FALSE
    /\ carved' = [keys_tmp |-> -1, values_tmp |-> -1,
                  large_segment_indices_output |-> -1,
                  large_segment_count_output |-> -1, partition_storage |-> -1]
    /\ large_segment_count' = 0
    /\ ops' = <<>>
    /\ UNCHANGED <<config, faults, kmem, vmem, keys_sel, values_sel, storage_size,
                   result, segment_indices, device_count, stream>>

\* ---------------------------------------------------------- device steps
\* stream after group g of its oldest kernel finished one more step
Advance(g) ==
    LET k == [Head(stream) EXCEPT !.done[g] = @ + 1]
    IN  IF KernelFinished(k) THEN Tail(stream) ELSE <<k>> \o Tail(stream)

\* faulty variant of Moved: the rest of dst is filled from src
Moved_copying_rest(mem, src, dst, b, e, order) ==
    WriteSeg([mem EXCEPT ![dst] = mem[src]], dst, b,
             Gather(SubSeq(mem[src], b + 1, e), order))
\* mem after a step that reads [b, e) of src and writes it to dst in `order`
Moved(mem, src, dst, b, e, order) ==
    WriteSeg(mem, dst, b, Gather(SubSeq(mem[src], b + 1, e), order))

\* one digit pass of one worker group of the large or the uniform kernel
GroupPass ==
    /\ stream # <<>>
    /\ Head(stream).kind # "small"
    /\ LET k == Head(stream) IN
       \E g \in 1..Len(k.done) :
         /\ k.done[g] < GroupSteps(k, g)
         /\ LET p == k.done[g]
                b == call.begin_offsets[k.segs[g]]
                e == call.end_offsets[k.segs[g]]
                bit == PassBit(p)
                current_radix_bits == CurrentRadixBits(p)
                order == DigitPassOrder(SubSeq(kmem[PassSource(k, p, "keys")], b + 1, e),
                                        bit, current_radix_bits, Descending)
            IN  /\ kmem' = Moved(kmem, PassSource(k, p, "keys"), PassDest(k, p, "keys"),
                                 b, e, order)
                /\ vmem' = IF with_values
                           THEN Moved(vmem, PassSource(k, p, "values"),
                                      PassDest(k, p, "values"), b, e, order)
                           ELSE vmem
                /\ stream' = Advance(g)
    /\ UNCHANGED <<call, config, faults, keys_sel, values_sel, storage_size, pc, result,
                   is_result_in_output, carved, segment_indices, device_count,
                   large_segment_count, ops>>

\* the single-step sort of one sub-group of the small kernel
WarpSort ==
    /\ stream # <<>>
    /\ Head(stream).kind = "small"
    /\ LET k == Head(stream) IN
       \E g \in 1..Len(k.done) :
         /\ k.done[g] < GroupSteps(k, g)
         /\ LET b == call.begin_offsets[k.segs[g]]
                e == call.end_offsets[k.segs[g]]
                order == SingleSortOrder(SubSeq(kmem[k.keys.input], b + 1, e),
                                         Descending, e - b)
                dk == IF k.to_output THEN k.keys.output ELSE k.keys.tmp
                dv == IF k.to_output THEN k.values.output ELSE k.values.tmp
            IN  /\ kmem' = Moved(kmem, k.keys.input, dk, b, e, order)
                /\ vmem' = IF with_values
                           THEN Moved(vmem, k.values.input, dv, b, e, order)
                           ELSE vmem
                /\ stream' = Advance(g)
    /\ UNCHANGED <<call, config, faults, keys_sel, values_sel, storage_size, pc, result,
                   is_result_in_output, carved, segment_indices, device_count,
                   large_segment_count, ops>>

\* ---------------------------------------------------------- specification
\* Calls that exercise the sort itself: every key array over KeySamples,
\* every bit range of BitRanges and radix configuration, both directions and call shapes;
\* no device operation fails. Where the first element is a segment of its
\* own its key does not take part in any comparison and is fixed.
InitData ==
    \E n \in {0, MaxSize} : \E keys \in [1..n -> KeySamples] :
    \E c \in {d \in DataCalls(n) : Len(d[1]) > 1 => keys[1] = 1} :
    \E range \in BitRanges : \E radix \in RadixConfigs :
    \E shape \in {"separate", "double"} : \E descending \in BOOLEAN :
        InitCall(keys, c[1], range, Config(radix, c[2]), shape, descending,
                 TRUE, "ptr", FALSE, FALSE)

\* Execute calls that exercise the orchestration: every segment list, every
\* warp sort configuration, both call shapes, keys-only and pairs, debug on
\* and off, one and two passes, over one fixed key array; where the
\* segments tile the array, or there is none, every device operation may
\* fail.
InitControl ==
    \E n \in {0, MaxSize} : \E segs \in Segmentations(n) :
    \E range \in ControlBitRanges : \E warp \in WarpConfigs :
    \E shape \in {"separate", "double"} : \E values \in BOOLEAN :
    \E debug \in BOOLEAN :
        InitCall(ControlKeys(n), segs, range, Config(<<1, 1>>, warp), shape, FALSE,
                 values, "ptr", debug, segs \in Tilings(n) \cup {<<>>})

\* Sizing calls (temporary_storage == nullptr), over two key arrays.
SizingKeys(n) == {ControlKeys(n), [i \in 1..n |-> 1]}
InitSizing ==
    \E n \in {0, MaxSize} : \E segs \in Tilings(n) \cup {<<>>} :
    \E range \in ControlBitRanges : \E warp \in WarpConfigs :
    \E shape \in {"separate", "double"} : \E values \in BOOLEAN :
    \E descending \in BOOLEAN : \E debug \in BOOLEAN :
    \E keys \in SizingKeys(n) :
        InitCall(keys, segs, range, Config(<<1, 1>>, warp), shape, descending,
                 values, Nullptr, debug, TRUE)

\* Calls that exercise the pass schedule and the swap decision alone: no
\* elements and no segments, every bit range from bit 0 or 1 up to the key
\* width, every pair of radix widths up to MaxRadixBits, sizing and execute.
ScheduleBitRanges == {r \in {0, 1} \X (1..KeyBits) : r[1] < r[2]}
ScheduleRadixConfigs ==
    {r \in (1..MaxRadixBits) \X (1..MaxRadixBits) : r[2] <= r[1]}
InitSchedule ==
    \E range \in ScheduleBitRanges : \E radix \in ScheduleRadixConfigs :
    \E shape \in {"separate", "double"} : \E storage \in {Nullptr, "ptr"} :
        InitCall(<<>>, <<>>, range, Config(radix, DisabledWarpSortConfig), shape, FALSE,
                 FALSE, storage, FALSE, FALSE)

Init == InitData \/ InitControl \/ InitSizing \/ InitSchedule

Next ==
    \/ SizeQuery
    \/ EmptyReturn
    \/ Begin
    \/ Partition
    \/ CopyCount
    \/ SyncCount
    \/ LaunchLarge
    \/ LaunchSmall
    \/ LaunchUniform
    \/ DebugSync
    \/ ApiReturn
    \/ CallAgain
    \/ GroupPass
    \/ WarpSort

Spec == Init /\ [][Next]_vars

\* the calls that exercise the host side alone: the orchestration family,
\* the sizing calls and the schedule calls, over fixed key arrays
OrchestrationInit == InitControl \/ InitSizing \/ InitSchedule
Orchestration == OrchestrationInit /\ [][Next]_vars

\* the calls of Init in which no device operation fails
FaultFreeInit == Init /\ ~faults
FaultFree == FaultFreeInit /\ [][Next]_vars

\* the steps of the host thread inside one API call: the host code runs to
\* its return, blocking only in the synchronizations
HostStep ==
    \/ SizeQuery
    \/ EmptyReturn
    \/ Begin
    \/ Partition
    \/ CopyCount
    \/ SyncCount
    \/ LaunchLarge
    \/ LaunchSmall
    \/ LaunchUniform
    \/ DebugSync
    \/ ApiReturn

\* whenever the host thread or a worker group of the oldest kernel on the
\* stream can take a step, one of them eventually does; whether the caller
\* calls again is up to the caller
Fairness == WF_vars(HostStep \/ GroupPass \/ WarpSort)

\* the calls of the host-side families in which every device operation may
\* fail, under fair scheduling
TerminationInit == OrchestrationInit /\ faults
Termination == TerminationInit /\ [][Next]_vars /\ Fairness

\* ------------------------------------------------------------- properties
\* the call has returned to the caller and the stream has drained
Finished == pc = "done" /\ stream = <<>>
Returned == pc \in {"ret", "done"}
Executed == call.temporary_storage # Nullptr
Succeeded == Returned /\ result = hipSuccess

\* buffer contents at the entry of the call
InitialKeys == [b \in Buffers |-> IF b = "A" THEN call.keys ELSE JunkSeq(call.size)]
InitialValues ==
    [b \in Buffers |->
       IF ~call.with_values THEN <<>>
       ELSE IF b = "A" THEN Iota(call.size) ELSE JunkSeq(call.size)]

\* the key bits [begin_bit, end_bit) that take part in the comparison
SelectedBits(k) == (k % (2^call.end_bit)) \div (2^call.begin_bit)

\* 1-based array positions of segment s
SegPositions(s) == (call.begin_offsets[s] + 1)..call.end_offsets[s]

\* input position i goes before input position j in the stable sort
GoesBefore(i, j) ==
    LET a == SelectedBits(call.keys[i])
        b == SelectedBits(call.keys[j])
    IN  IF a = b THEN i < j
        ELSE IF call.descending THEN a > b ELSE a < b

\* where the stable sort of segment s puts input position i
SortedPosition(s, i) ==
    call.begin_offsets[s] + 1 + Cardinality({j \in SegPositions(s) : GoesBefore(j, i)})

\* buffers kbuf / vbuf hold, in every segment, the stable sort of the input
\* pairs (values are the input positions, 0-based)
HoldsSortedSegments(kbuf, vbuf) ==
    \A s \in 1..call.segments : \A i \in SegPositions(s) :
        /\ kmem[kbuf][SortedPosition(s, i)] = call.keys[i]
        /\ call.with_values => vmem[vbuf][SortedPosition(s, i)] = i - 1

\* some segment has two different keys that tie on the selected bits
HasTie ==
    \E s \in 1..call.segments : \E i \in SegPositions(s) : \E j \in SegPositions(s) :
        /\ i < j
        /\ call.keys[i] # call.keys[j]
        /\ SelectedBits(call.keys[i]) = SelectedBits(call.keys[j])

\* C1: after a successful execute call of the pairs variants with separate
\* output buffers, every segment of keys_output / values_output holds the
\* stable sort of that segment's input pairs by the selected key bits,
\* ascending or descending.
C1_SeparateOutputIsStableSort ==
    (Finished /\ Executed /\ Succeeded /\ call.shape = "separate" /\ call.with_values)
        => HoldsSortedSegments("B", "B")

C1_Witness ==
    /\ Finished /\ Executed /\ Succeeded
    /\ call.shape = "separate" /\ call.with_values /\ call.descending
    /\ HasTie
    /\ iterations = 2
    /\ kmem["B"] # call.keys
    /\ HoldsSortedSegments("B", "B")

\* C2: after a successful execute call of a double-buffer variant, the
\* buffers keys.current() and values.current() hold in every segment the
\* stable sort of the input, which is what the separate-output variant
\* leaves in keys_output / values_output.
C2_CurrentHoldsSortedSegments ==
    (Finished /\ Executed /\ Succeeded /\ call.shape = "double")
        => HoldsSortedSegments(Current(keys_sel), Current(values_sel))

C2_Witness ==
    /\ Finished /\ Executed /\ Succeeded
    /\ call.shape = "double" /\ call.with_values
    /\ keys_sel = 2 /\ values_sel = 2
    /\ HasTie
    /\ iterations = 3
    /\ kmem["B"] # call.keys
    /\ HoldsSortedSegments("B", "B")

\* nothing but storage_size, the result and the flag has changed since entry
NoDeviceEffect ==
    /\ kmem = InitialKeys
    /\ vmem = InitialValues
    /\ stream = <<>>
    /\ segment_indices = <<>>
    /\ device_count = Junk
    /\ large_segment_count = 0

\* C3: a call with temporary_storage == nullptr only writes storage_size and
\* returns: it executes no partition, copy, synchronization or sort
\* dispatch (the only operation it may issue is the partition's own size
\* query), writes no key, value or scratch buffer, and swaps no handle.
C3_SizingCallHasNoEffect ==
    ~Executed =>
        /\ NoDeviceEffect
        /\ keys_sel = 1 /\ values_sel = 1
        /\ \A n \in 1..Len(ops) : ops[n].op = "partition_size"
        /\ Len(ops) <= 1
        /\ pc \in {"impl", "ret", "done"}

C3_Witness ==
    /\ ~Executed /\ pc = "done" /\ result = hipSuccess
    /\ call.shape = "double" /\ is_result_in_output
    /\ do_partitioning /\ Len(ops) = 1
    /\ call.size > 0 /\ call.debug_synchronous
    /\ keys_sel = 1

\* the sizing call's requirement is 0: no scratch for keys and values is
\* needed (a double buffer is supplied, or there are no elements) and the
\* classification will not run
ZeroRequirement ==
    /\ ~do_partitioning
    /\ with_double_buffer \/ call.size = 0

\* C4: after every successful sizing call storage_size > 0, for every
\* element and segment count, both call shapes, classification on or off;
\* when the requirement is 0 the reported size is the sentinel 4.
C4_SizingReportsPositiveSize ==
    (~Executed /\ Succeeded) =>
        /\ storage_size > 0
        /\ ZeroRequirement => storage_size = 4

C4_Witness ==
    /\ ~Executed /\ Succeeded
    /\ ZeroRequirement
    /\ call.shape = "separate" /\ call.size = 0 /\ call.segments = 0
    /\ storage_size = 4

\* C5: an execute call with segments == 0 returns success immediately: it
\* issues no device operation and writes no buffer, in both call shapes.
C5_EmptyCallIsNoOp ==
    (Executed /\ call.segments = 0) =>
        /\ ops = <<>>
        /\ NoDeviceEffect
        /\ carved.partition_storage = -1
        /\ pc \in {"impl", "ret", "done"}
        /\ Returned => result = hipSuccess

C5_Witness ==
    /\ Executed /\ call.segments = 0 /\ call.size > 0
    /\ pc = "done" /\ result = hipSuccess
    /\ call.debug_synchronous /\ faults
    /\ call.shape = "separate"
    /\ ops = <<>> /\ kmem["B"] = JunkSeq(call.size)

\* C6: after any double-buffer execute call that returns success, for
\* every segment count (0 included) and every pass count, current() of each
\* handle designates the buffer with the valid data: the sorted segments,
\* and for a call with nothing to sort the unchanged input.
C6_CurrentDesignatesValidData ==
    (Finished /\ Executed /\ Succeeded /\ call.shape = "double") =>
        /\ HoldsSortedSegments(Current(keys_sel), Current(values_sel))
        /\ call.segments = 0 =>
             /\ kmem[Current(keys_sel)] = call.keys
             /\ vmem[Current(values_sel)] = InitialValues["A"]

\* C7: in the separate-output call shape no step of a sizing or execute
\* call writes keys_input, values_input, begin_offsets or end_offsets.
C7_SeparateShapeKeepsInputs ==
    [][call.shape = "separate" =>
         /\ kmem'["A"] = kmem["A"]
         /\ vmem'["A"] = vmem["A"]
         /\ call'.begin_offsets = call.begin_offsets
         /\ call'.end_offsets = call.end_offsets]_vars

C7_Witness ==
    /\ Finished /\ Executed /\ Succeeded
    /\ call.shape = "separate" /\ call.with_values
    /\ iterations = 3
    /\ kmem["T"] # JunkSeq(call.size) /\ vmem["T"] # JunkSeq(call.size)
    /\ kmem["B"] # call.keys
    /\ kmem["A"] = call.keys /\ vmem["A"] = Iota(call.size)

\* C8: the size a successful sizing call writes is (0 with a double buffer,
\* else aligned(size * sizeof(key)) + aligned(size * sizeof(value)), the
\* value term 0 in keys-only mode) + (if classification will run:
\* aligned(segments * sizeof(index)) + aligned(sizeof(index)) + the
\* partition primitive's own size), 0 replaced by the sentinel; with a
\* double buffer it is a function of the segment count alone.
C8_SizingFormula ==
    (~Executed /\ Succeeded) =>
        LET scratch == IF call.shape = "double" THEN 0
                       ELSE AlignSize(call.size * SizeofKey)
                            + (IF call.with_values THEN AlignSize(call.size * SizeofValue)
                               ELSE 0)
            classify == IF do_partitioning
                        THEN AlignSize(call.segments * SizeofIndex) + AlignSize(SizeofIndex)
                             + PartitionStorageSize(call.segments)
                        ELSE 0
        IN  /\ storage_size = (IF scratch + classify = 0 THEN 4 ELSE scratch + classify)
            /\ call.shape = "double" =>
                 storage_size = (IF classify = 0 THEN 4 ELSE classify)

C8_Witness ==
    /\ ~Executed /\ Succeeded
    /\ call.shape = "separate" /\ call.with_values
    /\ do_partitioning /\ call.size > 0 /\ call.segments = 2
    /\ storage_size > 4 * Alignment

\* the uniform path as a function of the input: the order of segment s
\* after its first p digit passes, as positions within the segment
RECURSIVE UniformOrder(_, _)
UniformOrder(s, p) ==
    IF p = 0 THEN [i \in 1..SegmentLength(s) |-> i]
    ELSE LET prev == UniformOrder(s, p - 1)
             segkeys == SubSeq(call.keys, call.begin_offsets[s] + 1, call.end_offsets[s])
             bit == PassBit(p - 1)
             width == Min(PassWidth(p - 1), call.end_bit - bit)
         IN  Gather(prev, DigitPassOrder(Gather(segkeys, prev), bit, width,
                                         call.descending))

\* the buffers a finished call leaves its result in
ResultKeys == IF with_double_buffer THEN Current(keys_sel) ELSE "B"
ResultValues == IF with_double_buffer THEN Current(values_sel) ELSE "B"

\* every segment of the result is what the uniform path computes
MatchesUniformPath ==
    \A s \in 1..call.segments : \A i \in 1..SegmentLength(s) :
        LET b == call.begin_offsets[s]
            from == b + UniformOrder(s, iterations)[i]
        IN  /\ kmem[ResultKeys][b + i] = call.keys[from]
            /\ call.with_values => vmem[ResultValues][b + i] = from - 1

\* C9: for the same input, offsets and bit range the output is the same
\* whether classification runs (large-segment plus small-segment dispatch)
\* or the uniform path is taken, for every length threshold and every
\* segment-count threshold: on both paths it is the uniform path's function
\* of the input.
C9_ClassifiedEqualsUniform ==
    (Finished /\ Executed /\ Succeeded) => MatchesUniformPath

C9_Witness ==
    /\ Finished /\ Executed /\ Succeeded
    /\ do_partitioning
    /\ \E m \in 1..Len(ops) : ops[m].op = "large"
    /\ \E m \in 1..Len(ops) : ops[m].op = "small"
    /\ iterations = 2
    /\ kmem[ResultKeys] # call.keys
    /\ MatchesUniformPath

\* C10: the first failing device operation of a call makes the call return
\* exactly that error code; no later device operation is issued and
\* nothing is retried.
C10_FirstFailureIsReturned ==
    LET n == Len(ops)
    IN  /\ \A m \in 1..(n - 1) : ops[m].rc = hipSuccess
        /\ (n > 0 /\ ops[n].rc # hipSuccess) => (Returned /\ result = ops[n].rc)
        /\ (Returned /\ result # hipSuccess) => (n > 0 /\ ops[n].rc = result)

C10_Witness ==
    /\ pc = "done" /\ result = 2
    /\ Len(ops) >= 5
    /\ ops[Len(ops)].op = "small" /\ ops[Len(ops)].rc = 2
    /\ \E m \in 1..Len(ops) : ops[m].op = "large"
    /\ \A m \in 1..(Len(ops) - 1) : ops[m].rc = hipSuccess

\* ---- what a call does, as a function of its arguments other than debug
\* the partition and sort dispatches of the call's operation log
IsDispatch(o) == o.op \in {"partition_size", "partition", "large", "small", "uniform"}
Dispatches == SelectSeq(ops, IsDispatch)
Dispatch(name, n) == [op |-> name, n |-> n, rc |-> hipSuccess]
WillClassify == config.warp_enabled /\ call.segments >= config.partitioning_threshold
ExpectedDispatches ==
    LET large == Cardinality({i \in 1..call.segments :
                     call.end_offsets[i] - call.begin_offsets[i]
                         > config.items_per_thread * config.logical_warp_size})
        small == call.segments - large
        groups == config.warp_block_size \div config.logical_warp_size
    IN  IF call.temporary_storage = Nullptr
        THEN IF WillClassify THEN <<Dispatch("partition_size", call.segments)>> ELSE <<>>
        ELSE IF call.segments = 0 THEN <<>>
        ELSE IF WillClassify
        THEN <<Dispatch("partition", call.segments)>>
             \o (IF large > 0 THEN <<Dispatch("large", large)>> ELSE <<>>)
             \o (IF small > 0 THEN <<Dispatch("small", (small + groups - 1) \div groups)>>
                 ELSE <<>>)
        ELSE <<Dispatch("uniform", call.segments)>>

PassCount == CeilingDiv(call.end_bit - call.begin_bit, config.long_radix_bits)

\* the selector of a handle after the calls made so far: one swap per
\* execute call when the pass count is odd
ExpectedSelector ==
    IF call.shape = "double" /\ call.temporary_storage # Nullptr
       /\ PassCount % 2 = 1 /\ call.round % 2 = 1
    THEN 2 ELSE 1

ExpectedResultBuffer == IF call.shape = "double" THEN Current(ExpectedSelector) ELSE "B"

ExpectedStorageSize ==
    LET scratch == IF call.shape = "double" THEN 0
                   ELSE AlignSize(call.size * SizeofKey)
                        + (IF call.with_values THEN AlignSize(call.size * SizeofValue)
                           ELSE 0)
        classify == IF WillClassify
                    THEN AlignSize(call.segments * SizeofIndex) + AlignSize(SizeofIndex)
                         + PartitionStorageSize(call.segments)
                    ELSE 0
    IN  IF call.temporary_storage # Nullptr THEN 0
        ELSE IF scratch + classify = 0 THEN 4 ELSE scratch + classify

\* the segment position i belongs to, 0 if none
SegmentOf(i) ==
    IF \E s \in 1..call.segments : i \in SegPositions(s)
    THEN CHOOSE s \in 1..call.segments : i \in SegPositions(s)
    ELSE 0

\* the output buffers hold the sorted segments, and what they held at entry
\* everywhere else
ExpectedOutput ==
    \/ call.temporary_storage = Nullptr
    \/ \A i \in 1..call.size :
         LET s == SegmentOf(i)
             from == call.begin_offsets[s]
                     + UniformOrder(s, PassCount)[i - call.begin_offsets[s]]
         IN  IF s = 0
             THEN /\ kmem[ExpectedResultBuffer][i] = InitialKeys[ExpectedResultBuffer][i]
                  /\ call.with_values =>
                       vmem[ExpectedResultBuffer][i] = InitialValues[ExpectedResultBuffer][i]
             ELSE /\ kmem[ExpectedResultBuffer][i] = call.keys[from]
                  /\ call.with_values => vmem[ExpectedResultBuffer][i] = from - 1

\* C11: for identical arguments a call with debug on and a call with debug
\* off issue the same partition and sort dispatches with the same
\* parameters and produce the same output buffers, storage_size and swap
\* decision: all of these are the same function of the other arguments
\* whatever the debug flag is; debug only adds synchronizations.
C11_DebugChangesNothingButSyncs ==
    (Finished /\ Succeeded) =>
        /\ Dispatches = ExpectedDispatches
        /\ ExpectedOutput
        /\ storage_size = ExpectedStorageSize
        /\ keys_sel = ExpectedSelector
        /\ call.with_values => values_sel = ExpectedSelector
        /\ \A m \in 1..Len(ops) : IsDispatch(ops[m]) \/ ops[m].op \in {"memcpy", "sync"}
        /\ ~call.debug_synchronous =>
             Len(ops) = Len(Dispatches)
                        + (IF call.temporary_storage # Nullptr /\ call.segments > 0
                              /\ WillClassify THEN 2 ELSE 0)

C11_Witness ==
    /\ Finished /\ Succeeded /\ Executed
    /\ call.debug_synchronous
    /\ Len(Dispatches) = 3
    /\ Len(ops) = 8
    /\ call.shape = "double" /\ keys_sel = 2
    /\ kmem["B"] # JunkSeq(call.size) /\ kmem["B"] # call.keys
    /\ ExpectedOutput

\* the order the passes of the schedule put an array in when it is sorted
\* alone, as positions of the array
RECURSIVE AloneOrder(_, _, _)
AloneOrder(seg, p, desc) ==
    IF p = 0 THEN [i \in 1..Len(seg) |-> i]
    ELSE LET prev == AloneOrder(seg, p - 1, desc)
             bit == PassBit(p - 1)
             width == Min(PassWidth(p - 1), call.end_bit - bit)
         IN  Gather(prev, DigitPassOrder(Gather(seg, prev), bit, width, desc))
SortedAlone(seg, desc) == Gather(seg, AloneOrder(seg, PassCount, desc))

InputSegment(s) == SubSeq(call.keys, call.begin_offsets[s] + 1, call.end_offsets[s])
OutputSegment(mem, s) ==
    SubSeq(mem, call.begin_offsets[s] + 1, call.end_offsets[s])

\* C12: segments are sorted independently: segment by segment, the output
\* of one call over all segments is the output of sorting that segment
\* alone with the same bit range, a function of that segment's input only.
C12_SegmentsSortedIndependently ==
    (Finished /\ Executed /\ Succeeded) =>
        \A s \in 1..call.segments :
            /\ OutputSegment(kmem[ResultKeys], s)
                   = SortedAlone(InputSegment(s), call.descending)
            /\ call.with_values =>
                 OutputSegment(vmem[ResultValues], s)
                     = [i \in 1..SegmentLength(s) |->
                          call.begin_offsets[s] - 1
                          + AloneOrder(InputSegment(s), PassCount, call.descending)[i]]

C12_Witness ==
    /\ Finished /\ Executed /\ Succeeded
    /\ call.segments = 2 /\ call.with_values
    /\ SegmentLength(1) = 1 /\ SegmentLength(2) = 2
    /\ call.keys[1] # call.keys[2] /\ call.keys[1] # call.keys[3]
    /\ OutputSegment(kmem[ResultKeys], 2) # InputSegment(2)
    /\ OutputSegment(kmem[ResultKeys], 1) = InputSegment(1)
    /\ \E m \in 1..Len(ops) : ops[m].op = "large"

\* C13: keys that agree on the bits [begin_bit, end_bit) keep their input
\* order within the segment, together with their values, whatever their
\* other bits are, ascending and descending.
C13_TiesKeepInputOrder ==
    (Finished /\ Executed /\ Succeeded /\ call.with_values) =>
        \A s \in 1..call.segments : \A i \in SegPositions(s) :
            /\ vmem[ResultValues][i] \in 0..(call.size - 1)
            /\ kmem[ResultKeys][i] = call.keys[vmem[ResultValues][i] + 1]
            /\ \A j \in SegPositions(s) :
                 (i < j /\ SelectedBits(kmem[ResultKeys][i])
                           = SelectedBits(kmem[ResultKeys][j]))
                     => vmem[ResultValues][i] < vmem[ResultValues][j]

C13_Witness ==
    /\ Finished /\ Executed /\ Succeeded /\ call.with_values
    /\ call.descending
    /\ call.begin_bit = 0 /\ call.end_bit = 3
    /\ kmem[ResultKeys] = <<5, 1, 9>>
    /\ vmem[ResultValues] = <<2, 0, 1>>
    /\ call.keys = <<1, 9, 5>>

Reverse(seq) == [i \in 1..Len(seq) |-> seq[Len(seq) + 1 - i]]

\* the keys of segment s are pairwise distinct on the selected bits
NoTies(s) ==
    \A i \in SegPositions(s) : \A j \in SegPositions(s) :
        i # j => SelectedBits(call.keys[i]) # SelectedBits(call.keys[j])

\* the values the ascending sort of segment s leaves, values being positions
AscendingValues(s) ==
    [i \in 1..SegmentLength(s) |->
       call.begin_offsets[s] - 1 + AloneOrder(InputSegment(s), PassCount, FALSE)[i]]

\* C14: where the keys of a segment are pairwise distinct on the selected
\* bits, the descending call's output is within the segment the exact
\* reverse of the ascending call's output on the same input (and the
\* ascending call's output is that ascending output).
C14_DescendingIsReverseOfAscending ==
    (Finished /\ Executed /\ Succeeded) =>
        \A s \in 1..call.segments :
            NoTies(s) =>
                /\ OutputSegment(kmem[ResultKeys], s)
                       = (IF call.descending
                          THEN Reverse(SortedAlone(InputSegment(s), FALSE))
                          ELSE SortedAlone(InputSegment(s), FALSE))
                /\ call.with_values =>
                     OutputSegment(vmem[ResultValues], s)
                         = (IF call.descending THEN Reverse(AscendingValues(s))
                            ELSE AscendingValues(s))

C14_Witness ==
    /\ Finished /\ Executed /\ Succeeded
    /\ call.descending /\ call.with_values
    /\ call.segments = 1 /\ SegmentLength(1) = 3 /\ NoTies(1)
    /\ PassCount = 2
    /\ SortedAlone(call.keys, FALSE) # call.keys
    /\ kmem[ResultKeys] # call.keys
    /\ kmem[ResultKeys] = Reverse(SortedAlone(call.keys, FALSE))

\* a further call on the handles a successful call left has finished
Repeated ==
    /\ Finished /\ Executed /\ Succeeded
    /\ call.shape = "double" /\ call.round > 1

OddPassCount == PassCount % 2 = 1

\* the buffer of a handle that was alternate() at entry if the pass count is
\* odd, the one that was current() if it is even
LandingBuffer(entry) == IF OddPassCount THEN Alternate(entry) ELSE Current(entry)

\* C16: in a double-buffer execute call with n >= 1 passes the sorted data
\* ends in the buffer that was alternate() at entry iff n is odd, and the
\* API swaps current/alternate iff n is odd (is_result_in_output); for even
\* n the data ends in the original current() and nothing is swapped. In the
\* separate-output shape no handle is swapped.
C16_SwapIffOddPassCount ==
    /\ (call.shape = "double" /\ Executed /\ pc = "done") =>
         /\ is_result_in_output = OddPassCount
         /\ (keys_sel # call.entry.keys) = OddPassCount
         /\ call.with_values => (values_sel # call.entry.values) = OddPassCount
    /\ (call.shape = "double" /\ Executed /\ Finished /\ Succeeded) =>
         HoldsSortedSegments(LandingBuffer(call.entry.keys),
                             LandingBuffer(call.entry.values))
    /\ call.shape = "separate" => (keys_sel = 1 /\ values_sel = 1)

C16_Witness ==
    /\ call.shape = "double" /\ Executed /\ Finished /\ Succeeded
    /\ call.with_values
    /\ PassCount = 2
    /\ call.segments > 0 /\ SegmentLength(1) = 3
    /\ keys_sel = call.entry.keys /\ ~is_result_in_output
    /\ kmem[Current(keys_sel)] # call.keys
    /\ kmem[Alternate(keys_sel)] # JunkSeq(call.size)
    /\ call.round = 1

\* in this step worker group g of the oldest kernel on the stream, a large
\* or uniform kernel, runs the last pass of its segment
LastPassStep(g) ==
    /\ stream # <<>>
    /\ Head(stream).kind # "small"
    /\ g \in 1..Len(Head(stream).done)
    /\ Head(stream).done[g] + 1 = GroupSteps(Head(stream), g)
    /\ stream' = Advance(g)

\* C17: in the separate-output shape, for every pass count n >= 1, the last
\* pass of every segment writes keys_output / values_output (leaving the
\* sorted segment there) and not the scratch, and is_result_in_output is
\* true.
C17_LastPassWritesOutput ==
    /\ [](call.shape = "separate" /\ pc # "impl" => is_result_in_output)
    /\ [][call.shape = "separate" =>
            \A g \in 1..call.segments :
                LastPassStep(g) =>
                    LET s == Head(stream).segs[g]
                    IN  /\ kmem'["T"] = kmem["T"]
                        /\ vmem'["T"] = vmem["T"]
                        /\ OutputSegment(kmem'["B"], s)
                               = SortedAlone(InputSegment(s), call.descending)]_vars

C17_Witness ==
    /\ call.shape = "separate" /\ Executed /\ Finished /\ Succeeded
    /\ PassCount = 2 /\ ~to_output /\ is_result_in_output
    /\ call.descending
    /\ call.segments = 1 /\ SegmentLength(1) = 3
    /\ kmem["T"] # JunkSeq(call.size) /\ kmem["T"] # kmem["B"]
    /\ kmem["B"] = SortedAlone(call.keys, TRUE)

\* the buffer in which kernel k leaves a segment: the destination of its
\* last pass, or of its single step for the small kernel
FinalDestination(k, which) ==
    IF k.kind = "small"
    THEN IF k.to_output THEN k[which].output ELSE k[which].tmp
    ELSE PassDest(k, long_iterations + short_iterations - 1, which)

\* the buffer the caller finds the result in: keys_output, or what current()
\* designates after the call
CallerBuffer(which) ==
    IF call.shape = "separate" THEN "B" ELSE LandingBuffer(call.entry[which])

\* C18: in a classified execute call the large-segment dispatch (to_output
\* and its pass schedule) and the small-segment dispatch
\* (is_result_in_output) leave their segments in the same physical buffer,
\* for every pass count and both call shapes: keys_output in the
\* separate-output shape, the buffer current() designates after the call in
\* the double-buffer shape.
C18_LargeAndSmallLandTogether ==
    /\ \A i \in 1..Len(stream) :
          stream[i].kind \in {"large", "small"} =>
              /\ FinalDestination(stream[i], "keys") = CallerBuffer("keys")
              /\ call.with_values =>
                     FinalDestination(stream[i], "values") = CallerBuffer("values")
    /\ (Finished /\ Executed /\ Succeeded /\ do_partitioning) =>
          /\ ResultKeys = CallerBuffer("keys")
          /\ call.with_values => ResultValues = CallerBuffer("values")
          /\ HoldsSortedSegments(ResultKeys, ResultValues)

C18_Witness ==
    /\ call.shape = "double" /\ Executed
    /\ PassCount = 2
    /\ Len(stream) = 2
    /\ stream[1].kind = "large" /\ stream[2].kind = "small"
    /\ stream[1].to_output /\ ~stream[2].to_output
    /\ stream[1].done[1] = 1
    /\ FinalDestination(stream[1], "keys") = FinalDestination(stream[2], "keys")

\* total width of the scheduled passes
ScheduledWidth ==
    long_iterations * config.long_radix_bits + short_iterations * config.short_radix_bits

\* C19 as stated: the widths of the scheduled passes add up to bits exactly.
C19_ScheduledWidthEqualsBits == ScheduledWidth = bits

\* C19, amended: in the schedule a finished call computed, the widths add
\* up to at least bits and to less than bits + long width; every pass
\* starts inside [begin_bit, end_bit),
\* only the last pass can reach past end_bit, and with each pass cut off at
\* end_bit the passes cover the bit range with no gap and no overlap.
C19_ClampedPassesCoverBits ==
    Finished =>
    LET n == long_iterations + short_iterations
    IN  /\ long_iterations >= 0 /\ short_iterations >= 0 /\ n >= 1
        /\ ScheduledWidth >= bits
        /\ ScheduledWidth - bits < config.long_radix_bits
        /\ PassBit(0) = call.begin_bit
        /\ \A p \in 0..(n - 1) : CurrentRadixBits(p) >= 1
        /\ \A p \in 0..(n - 2) : PassBit(p + 1) = PassBit(p) + CurrentRadixBits(p)
        /\ PassBit(n - 1) + CurrentRadixBits(n - 1) = call.end_bit

\* a finished sort whose last pass was cut off at end_bit
C19_Witness ==
    /\ Executed /\ Finished /\ Succeeded
    /\ config.long_radix_bits = 2 /\ config.short_radix_bits = 2
    /\ bits = 3 /\ ScheduledWidth = 4
    /\ CurrentRadixBits(1) = 1
    /\ call.segments = 1 /\ SegmentLength(1) = 3
    /\ kmem[ResultKeys] # call.keys
    /\ HoldsSortedSegments(ResultKeys, ResultValues)

\* the least number of passes of width at most long_radix_bits covering bits
MinPasses ==
    CHOOSE k \in 1..bits :
        /\ k * config.long_radix_bits >= bits
        /\ \A j \in 1..(k - 1) : j * config.long_radix_bits < bits

\* C20: in the schedule a finished call computed,
\* long_iterations + short_iterations is ceil(bits / long width), the
\* least number of passes of width at most the long width that cover bits;
\* with equal widths short_iterations is 0; and to_output and
\* is_result_in_output use the parity of this total.
C20_PassCountIsMinimal ==
    Finished =>
    LET total == long_iterations + short_iterations
    IN  /\ total = MinPasses
        /\ total * config.long_radix_bits >= bits
        /\ (total - 1) * config.long_radix_bits < bits
        /\ config.long_radix_bits = config.short_radix_bits => short_iterations = 0
        /\ to_output = (call.shape = "double" \/ total % 2 = 1)
        /\ Executed =>
               is_result_in_output = ((total % 2 = 0) # to_output)

\* a returned call whose schedule mixes long and short passes
C20_Witness ==
    /\ Executed /\ Finished
    /\ call.shape = "double"
    /\ config.long_radix_bits = 3 /\ config.short_radix_bits = 2
    /\ bits = 7
    /\ long_iterations = 1 /\ short_iterations = 2
    /\ is_result_in_output /\ to_output

\* the host has read the large-segment count back and has not returned an
\* error since
Classified == pc \in {"large", "large_sync", "small", "small_sync"}

\* the segments the large and the small dispatch of this call are given
LargeSegments == {segment_indices[j] : j \in 1..large_segment_count}
SmallSegments == {SmallSegmentIndices[j] : j \in 1..Len(SmallSegmentIndices)}

\* C21: every segment handled by the small-segment dispatch has at most
\* items_per_thread * logical_warp_size elements: the predicate is strict,
\* so a segment of exactly that length, and an empty one, goes to the small
\* dispatch and a segment one element longer to the large dispatch.
C21_SmallSegmentsFitOneSubGroup ==
    /\ Classified =>
          /\ SmallSegments
                 = {i \in 1..call.segments :
                        SegmentLength(i) <= config.items_per_thread * config.logical_warp_size}
          /\ LargeSegments
                 = {i \in 1..call.segments :
                        SegmentLength(i) >= config.items_per_thread * config.logical_warp_size + 1}
    /\ \A m \in 1..Len(stream) : \A g \in 1..Len(stream[m].segs) :
          /\ stream[m].kind = "small" =>
                 SegmentLength(stream[m].segs[g])
                     <= config.items_per_thread * config.logical_warp_size
          /\ stream[m].kind = "large" =>
                 SegmentLength(stream[m].segs[g])
                     > config.items_per_thread * config.logical_warp_size

\* a small kernel with a segment of exactly the capacity behind a large
\* kernel with a segment one element longer
C21_Witness ==
    /\ Len(stream) = 2
    /\ stream[1].kind = "large" /\ stream[2].kind = "small"
    /\ config.items_per_thread = 1 /\ config.logical_warp_size = 1
    /\ stream[1].segs = <<2>> /\ SegmentLength(2) = 2
    /\ stream[2].segs = <<1>> /\ SegmentLength(1) = 1

\* elements one sub-group of the small strategy holds, and elements all the
\* sub-groups of one group hold together
SubGroupCapacity == config.items_per_thread * config.logical_warp_size
GroupCapacity == (config.warp_block_size \div config.logical_warp_size) * SubGroupCapacity

\* C22 as stated: the classifier's length threshold is the per-group
\* capacity, (sub-groups per group) * (items per sub-group).
C22_ThresholdIsGroupCapacity ==
    Classified =>
        \A i \in 1..call.segments :
            i \in LargeSegments <=> SegmentLength(i) > GroupCapacity

\* C22, amended: the classifier's length threshold is the capacity of one
\* sub-group, items_per_thread * logical_warp_size; it is the per-group
\* capacity only where a group has a single sub-group.
C22_ThresholdIsSubGroupCapacity ==
    /\ Classified =>
          \A i \in 1..call.segments :
              i \in LargeSegments <=> SegmentLength(i) > SubGroupCapacity
    /\ config.warp_enabled =>
          (SubGroupCapacity = GroupCapacity
               <=> config.warp_block_size \div config.logical_warp_size = 1)

\* a segment that fits a group but not a sub-group goes to the large dispatch
C22_Witness ==
    /\ Classified
    /\ config.warp_block_size \div config.logical_warp_size = 2
    /\ SubGroupCapacity = 1 /\ GroupCapacity = 2
    /\ \E i \in LargeSegments : SegmentLength(i) = 2
    /\ \E m \in 1..Len(ops) : ops[m].op = "large" /\ ops[m].n = 1

\* the dispatches of the given kind issued so far
Issues(kind) == SelectSeq(ops, LAMBDA o : o.op = kind)

IsIncreasing(seq) == \A j \in 1..(Len(seq) - 1) : seq[j] < seq[j + 1]

\* C23: when classification runs the reordered index array is a permutation
\* of the segment indices, its first large_segment_count entries exactly the
\* segments longer than the threshold and the rest exactly the others, each
\* part in its original order; every segment is given to exactly one of the
\* two dispatches, one worker group per large segment and one sub-group per
\* small segment in ceil(small count / segments per group) groups; and a
\* dispatch is issued only for a segment count > 0.
C23_EverySegmentInOneDispatch ==
    LET large == Cardinality({i \in 1..call.segments : large_segment_selector(i)})
        small == call.segments - large
    IN  /\ Classified =>
              /\ Len(segment_indices) = call.segments
              /\ {segment_indices[j] : j \in 1..call.segments} = 1..call.segments
              /\ large_segment_count = large
              /\ LargeSegments \cap SmallSegments = {}
              /\ LargeSegments \cup SmallSegments = 1..call.segments
              /\ IsIncreasing(SubSeq(segment_indices, 1, large))
              /\ IsIncreasing(SmallSegmentIndices)
        /\ \A m \in 1..Len(stream) :
              /\ stream[m].kind = "large" =>
                     /\ stream[m].segs = SubSeq(segment_indices, 1, large)
                     /\ Len(stream[m].done) = large
              /\ stream[m].kind = "small" =>
                     /\ stream[m].segs = SubSeq(segment_indices, large + 1, call.segments)
                     /\ Len(stream[m].done)
                            = CeilingDiv(small, small_segments_per_block)
                              * small_segments_per_block
                     /\ Len(stream[m].done) >= small
        /\ \A m \in 1..Len(ops) :
              /\ ops[m].op = "large" => (ops[m].n = large /\ large > 0)
              /\ ops[m].op = "small" =>
                     /\ ops[m].n = CeilingDiv(small, small_segments_per_block)
                     /\ small > 0
        /\ Len(Issues("large")) <= 1 /\ Len(Issues("small")) <= 1
        /\ (Finished /\ Executed /\ Succeeded /\ do_partitioning) =>
              /\ Len(Issues("large")) = (IF large > 0 THEN 1 ELSE 0)
              /\ Len(Issues("small")) = (IF small > 0 THEN 1 ELSE 0)
              /\ Issues("uniform") = <<>>

\* the second segment is large and comes first in the reordered array
C23_Witness ==
    /\ Returned /\ result = hipSuccess
    /\ call.segments = 2
    /\ segment_indices = <<2, 1>>
    /\ large_segment_count = 1
    /\ Len(stream) = 2
    /\ stream[1].segs = <<2>> /\ stream[2].segs = <<1>>
    /\ Len(stream[2].done) = 2

\* the call got past the early returns and the debug dump
Started ==
    /\ Executed /\ call.segments > 0
    /\ IF call.debug_synchronous
       THEN ops # <<>> /\ ops[1].rc = hipSuccess
       ELSE pc # "impl"

\* C24: classification runs iff the small-sort backend is enabled and the
\* segment count is at least the partitioning threshold; otherwise the
\* partition primitive is never invoked, no count is read back, and exactly
\* one uniform dispatch with one worker group per segment is issued.
C24_ClassificationIffEnabledAndEnough ==
    LET classifying == {"partition_size", "partition", "memcpy", "large", "small"}
    IN  /\ WillClassify =>
              /\ Issues("uniform") = <<>>
              /\ (Started /\ pc # "partition") => Len(Issues("partition")) = 1
              /\ (~Executed /\ Returned) => Len(Issues("partition_size")) = 1
        /\ ~WillClassify =>
              /\ \A m \in 1..Len(ops) : ops[m].op \notin classifying
              /\ ~call.debug_synchronous => Issues("sync") = <<>>
              /\ pc \notin {"partition", "memcpy", "sync", "large", "small"}
              /\ segment_indices = <<>> /\ large_segment_count = 0
              /\ Len(Issues("uniform")) <= 1
              /\ \A m \in 1..Len(ops) : ops[m].op = "uniform" => ops[m].n = call.segments
              /\ (Started /\ pc # "uniform") => Len(Issues("uniform")) = 1
              /\ \A m \in 1..Len(stream) :
                    /\ stream[m].kind = "uniform"
                    /\ Len(stream[m].done) = call.segments

\* the backend is enabled but there are fewer segments than the threshold
C24_Witness ==
    /\ Executed /\ Finished /\ Succeeded
    /\ config.warp_enabled
    /\ call.segments = 1 /\ config.partitioning_threshold = 2
    /\ SegmentLength(1) = 3
    /\ ops = <<Dispatch("uniform", 1)>>
    /\ kmem[ResultKeys] # call.keys

\* the names of the device operations issued so far, in issue order
OpNames == [m \in 1..Len(ops) |-> ops[m].op]
\* the kernels on the stream, oldest first
StreamKinds == [m \in 1..Len(stream) |-> stream[m].kind]

\* position m of ops ends a successful partition, read-back, synchronization
ReadBackEndsAt(m) ==
    /\ m >= 3
    /\ ops[m - 2].op = "partition" /\ ops[m - 2].rc = hipSuccess
    /\ ops[m - 1].op = "memcpy" /\ ops[m - 1].rc = hipSuccess
    /\ ops[m].op = "sync" /\ ops[m].rc = hipSuccess

\* C25: in every execute call the device operations are issued on the one
\* stream in the order partition, read-back of the large-segment count,
\* host synchronization, large dispatch, small dispatch (or one uniform
\* dispatch); no sort dispatch is issued before the count has been read
\* back, and the small dispatch is never issued before the large one.
C25_OperationsInProgramOrder ==
    /\ Executed =>
          SelectSeq(OpNames, LAMBDA o : o # "sync")
              \in {<<>>, <<"partition">>, <<"partition", "memcpy">>,
                   <<"partition", "memcpy", "large">>,
                   <<"partition", "memcpy", "small">>,
                   <<"partition", "memcpy", "large", "small">>,
                   <<"uniform">>}
    /\ \A m \in 1..Len(ops) :
          /\ ops[m].op = "memcpy" => (m > 1 /\ ops[m - 1].op = "partition")
          /\ ops[m].op \in {"large", "small"} =>
                 \E r \in 1..(m - 1) : ReadBackEndsAt(r)
          /\ (m > 1 /\ ops[m - 1].op = "memcpy" /\ ops[m - 1].rc = hipSuccess) =>
                 ops[m].op = "sync"
    /\ StreamKinds \in {<<>>, <<"large">>, <<"small">>, <<"large", "small">>, <<"uniform">>}
    /\ pc \in {"large", "large_sync", "small", "small_sync"} =>
          /\ large_segment_count = device_count
          /\ \E r \in 1..Len(ops) : ReadBackEndsAt(r)

C25_Witness ==
    /\ Executed /\ Returned /\ result = hipSuccess
    /\ OpNames = <<"partition", "memcpy", "sync", "large", "small">>
    /\ StreamKinds = <<"large", "small">>
    /\ stream[1].done[1] = 1

\* the sort dispatches
SortKinds == {"large", "small", "uniform"}

\* operation m is the synchronization after the read-back of the count
IsCountSync(m) == m > 1 /\ ops[m].op = "sync" /\ ops[m - 1].op = "memcpy"
\* operation m is the debug-mode synchronization after a dispatch
IsDispatchSync(m) ==
    /\ call.debug_synchronous
    /\ m > 1 /\ ops[m].op = "sync" /\ ops[m - 1].op \in SortKinds
\* operation m is the debug-mode synchronization after the parameter dump
IsDumpSync(m) ==
    /\ call.debug_synchronous /\ Executed /\ call.segments > 0
    /\ m = 1 /\ ops[m].op = "sync"

\* C26 as stated: the host blocks only in the synchronization after the
\* read-back of the count and, in debug mode, after a dispatch.
C26_OnlyCountAndDispatchSyncs ==
    \A m \in 1..Len(ops) : ops[m].op = "sync" => (IsCountSync(m) \/ IsDispatchSync(m))

\* C26, amended: the host blocks in the synchronization after the read-back
\* of the count (once per execute call that classifies, never on the uniform
\* path or in a sizing call), in debug mode after every sort dispatch, and
\* in debug mode once more at the start of an execute call with segments,
\* after the parameter dump; nowhere else.
C26_HostSynchronizations ==
    /\ \A m \in 1..Len(ops) :
          /\ ops[m].op = "sync" => (IsCountSync(m) \/ IsDispatchSync(m) \/ IsDumpSync(m))
          /\ (call.debug_synchronous /\ ops[m].op \in SortKinds /\ ops[m].rc = hipSuccess) =>
                 IF m < Len(ops) THEN ops[m + 1].op = "sync"
                 ELSE pc = ops[m].op \o "_sync"
    /\ (call.debug_synchronous /\ Started) => IsDumpSync(1)
    /\ ~call.debug_synchronous =>
          /\ Len(Issues("sync")) <= 1
          /\ (Len(Issues("sync")) = 1) <=>
                 (\E m \in 1..Len(ops) : ops[m].op = "memcpy" /\ ops[m].rc = hipSuccess
                                          /\ m < Len(ops))
          /\ ~WillClassify => Issues("sync") = <<>>
    /\ ~Executed => Issues("sync") = <<>>
    /\ pc \in {"sync", "large_sync", "small_sync", "uniform_sync"} =>
          ops[Len(ops)].op \in SortKinds \cup {"memcpy"}

\* a debug call on the classified path: dump, count and two dispatch syncs
C26_Witness ==
    /\ Executed /\ Finished /\ Succeeded
    /\ call.debug_synchronous
    /\ OpNames = <<"sync", "partition", "memcpy", "sync", "large", "sync", "small", "sync">>

\* operation m is the partition, the read-back or the synchronization
\* after it, and it failed
ClassificationFailedAt(m) ==
    /\ ops[m].rc # hipSuccess
    /\ \/ ops[m].op \in {"partition", "memcpy"}
       \/ IsCountSync(m)

\* C27: if the partition, the read-back of the count or the synchronization
\* after it fails in an execute call, the call returns that error before
\* any sort dispatch is issued: no sort kernel has written an element of
\* any buffer.
C27_ClassificationFailureWritesNothing ==
    \A m \in 1..Len(ops) :
        ClassificationFailedAt(m) =>
            /\ m = Len(ops)
            /\ Returned /\ result = ops[m].rc
            /\ \A j \in 1..Len(ops) : ops[j].op \notin SortKinds
            /\ stream = <<>>
            /\ call.round = 1 => (kmem = InitialKeys /\ vmem = InitialValues)

\* the synchronization after the read-back failed in a double-buffer call
C27_Witness ==
    /\ pc = "done" /\ result = 2
    /\ call.shape = "double" /\ call.with_values /\ call.size = 3
    /\ OpNames = <<"partition", "memcpy", "sync">>
    /\ ops[3].rc = 2
    /\ kmem = InitialKeys /\ vmem = InitialValues

\* the storage has been carved in this call
IsCarved == carved.large_segment_indices_output # -1

\* the regions of the temporary storage in their fixed order: the offset
\* the execute call carved, the size the sizing call adds up, and whether
\* the call uses the region at all
Regions ==
    <<[at |-> carved.keys_tmp, bytes |-> keys_bytes,
       used |-> call.shape = "separate"],
      [at |-> carved.values_tmp, bytes |-> values_bytes,
       used |-> call.shape = "separate" /\ call.with_values],
      [at |-> carved.large_segment_indices_output, bytes |-> segment_indices_bytes,
       used |-> WillClassify],
      [at |-> carved.large_segment_count_output, bytes |-> large_segment_count_bytes,
       used |-> WillClassify],
      [at |-> carved.partition_storage, bytes |-> PartitionStorageSize(call.segments),
       used |-> WillClassify]>>

\* C28: for every call shape, with and without values and classification,
\* the regions carved at execution lie in the order key scratch, value
\* scratch, segment-index scratch, large-segment counter, classifier
\* scratch, are pairwise disjoint, have the offsets and sizes the sizing call
\* on the same arguments adds up, and every region the call uses lies within
\* the storage_size that sizing call reports.  (The used regions start at
\* offset 0 and each starts where the one before it ends, so any two of
\* them are disjoint and in order.)
C28_CarvedRegionsMatchSizing ==
    IsCarved =>
        LET U == SelectSeq(Regions, LAMBDA r : r.used)
            reported == SizingTotal
            end == IF U = <<>> THEN 0 ELSE U[Len(U)].at + U[Len(U)].bytes
        IN  /\ U # <<>> => U[1].at = 0
            /\ \A i \in 1..Len(U) :
                  /\ U[i].bytes >= 0
                  /\ U[i].at % Alignment = 0
                  /\ U[i].at + U[i].bytes <= reported
                  /\ i > 1 => U[i].at = U[i - 1].at + U[i - 1].bytes
            /\ call.shape = "separate" =>
                  /\ call.size * SizeofKey <= keys_bytes
                  /\ call.with_values => call.size * SizeofValue <= values_bytes
            /\ WillClassify => call.segments * SizeofIndex <= segment_indices_bytes
            /\ end = (IF reported = Sentinel THEN 0 ELSE reported)

\* pairs, separate output, classification: all five regions are used
C28_Witness ==
    /\ IsCarved /\ Finished /\ Succeeded
    /\ call.shape = "separate" /\ call.with_values /\ WillClassify
    /\ call.size = 3 /\ call.segments = 2
    /\ carved = [keys_tmp |-> 0, values_tmp |-> 256,
                 large_segment_indices_output |-> 512,
                 large_segment_count_output |-> 768, partition_storage |-> 1024]
    /\ SizingTotal = 1024 + PartitionStorageSize(2)

\* the buffer pointers a kernel of this call is launched with
EntryPointers(which) ==
    IF call.shape = "double"
    THEN [input |-> Current(call.entry[which]), tmp |-> Current(call.entry[which]),
          output |-> Alternate(call.entry[which])]
    ELSE [input |-> "A", tmp |-> "T", output |-> "B"]

\* the kernel that handles segment s in this call
KernelOf(s) ==
    LET small == WillClassify /\ SegmentLength(s) <= SubGroupCapacity
    IN  [kind |-> IF small THEN "small" ELSE IF WillClassify THEN "large" ELSE "uniform",
         to_output |-> IF small THEN IsResultInOutput ELSE to_output,
         keys |-> EntryPointers("keys"), values |-> EntryPointers("values")]

\* buffers m = [k |-> keys, v |-> values] after one step that sorts [b, e)
\* of the src buffers into the dst buffers in the order the keys give
StepOn(m, ksrc, kdst, vsrc, vdst, b, e, order) ==
    [k |-> Moved(m.k, ksrc, kdst, b, e, order),
     v |-> IF call.with_values THEN Moved(m.v, vsrc, vdst, b, e, order) ELSE m.v]

\* buffers after the first p passes of segment s, run without interruption
RECURSIVE AfterPasses(_, _, _)
AfterPasses(m, s, p) ==
    IF p = 0 THEN m
    ELSE LET prev == AfterPasses(m, s, p - 1)
             k == KernelOf(s)
             b == call.begin_offsets[s]
             e == call.end_offsets[s]
             src == PassSource(k, p - 1, "keys")
         IN  StepOn(prev, src, PassDest(k, p - 1, "keys"),
                    PassSource(k, p - 1, "values"), PassDest(k, p - 1, "values"), b, e,
                    DigitPassOrder(SubSeq(prev.k[src], b + 1, e), PassBit(p - 1),
                                   CurrentRadixBits(p - 1), call.descending))

\* buffers after segment s was sorted on its own, without interruption
AfterSegment(m, s) ==
    LET k == KernelOf(s)
        b == call.begin_offsets[s]
        e == call.end_offsets[s]
    IN  IF e <= b THEN m
        ELSE IF k.kind = "small"
        THEN StepOn(m, k.keys.input, FinalDestination(k, "keys"),
                    k.values.input, FinalDestination(k, "values"), b, e,
                    SingleSortOrder(SubSeq(m.k[k.keys.input], b + 1, e),
                                    call.descending, e - b))
        ELSE AfterPasses(m, s, long_iterations + short_iterations)

\* buffers after the first n segments were sorted one after the other
RECURSIVE AfterSegments(_, _)
AfterSegments(m, n) ==
    IF n = 0 THEN m ELSE AfterSegment(AfterSegments(m, n - 1), n)

\* the groups of the kernels on the stream that have a non-empty segment
StreamGroups ==
    {mg \in (1..Len(stream)) \X (1..call.segments) :
        /\ mg[2] <= Len(stream[mg[1]].segs)
        /\ SegmentLength(stream[mg[1]].segs[mg[2]]) > 0}

\* C29: for non-overlapping segments, in every interleaving of the worker
\* groups of a dispatch (and of the groups of the large and the small
\* dispatch) no two groups touch the same element of any buffer, and the
\* final contents of all buffers are the same for every interleaving: those
\* of sorting the segments one after the other.
C29_InterleavingsAgree ==
    /\ \A x \in StreamGroups : \A y \in StreamGroups :
          x # y =>
              SegPositions(stream[x[1]].segs[x[2]])
                  \cap SegPositions(stream[y[1]].segs[y[2]]) = {}
    /\ (Finished /\ Executed /\ Succeeded /\ call.round = 1) =>
          LET m == AfterSegments([k |-> InitialKeys, v |-> InitialValues], call.segments)
          IN  kmem = m.k /\ vmem = m.v

\* both groups of a two-pass uniform kernel are half way
C29_Witness ==
    /\ Len(stream) = 1 /\ stream[1].kind = "uniform"
    /\ call.segments = 2 /\ SegmentLength(1) = 1 /\ SegmentLength(2) = 1
    /\ stream[1].done = <<1, 1>>
    /\ long_iterations + short_iterations = 2
    /\ call.round = 1

\* the kernels on the stream that run digit passes
PassKernels == {m \in 1..Len(stream) : stream[m].kind # "small"}

\* C30: within one segment the passes run in schedule order (the long
\* passes, then the short ones, digit offsets increasing from begin_bit),
\* pass k+1 reads exactly the buffer pass k wrote, consecutive passes
\* alternate between the two physical buffers, and no pass reads and writes
\* the same physical buffer, in both call shapes.
C30_PassesPingPong ==
    LET n == long_iterations + short_iterations
    IN  PassKernels # {} =>
        /\ \A m \in PassKernels : \A which \in {"keys", "values"} :
              LET k == stream[m]
              IN  /\ PassSource(k, 0, which) = k[which].input
                  /\ k[which].tmp # k[which].output
                  /\ \A p \in 0..(n - 1) :
                        /\ PassSource(k, p, which) # PassDest(k, p, which)
                        /\ PassDest(k, p, which) \in {k[which].tmp, k[which].output}
                  /\ \A p \in 0..(n - 2) :
                        /\ PassSource(k, p + 1, which) = PassDest(k, p, which)
                        /\ PassDest(k, p + 1, which) # PassDest(k, p, which)
        /\ PassBit(0) = call.begin_bit
        /\ \A p \in 0..(n - 2) :
              /\ PassBit(p + 1) > PassBit(p)
              /\ PassBit(p + 1) = PassBit(p) + PassWidth(p)
              /\ PassWidth(p + 1) <= PassWidth(p)
        /\ \A p \in 0..(n - 1) :
              PassWidth(p) \in {config.long_radix_bits, config.short_radix_bits}
        /\ n > 0 => (long_iterations > 0 => PassWidth(0) = config.long_radix_bits)
        /\ call.round = 1 =>
              \A m \in PassKernels : \A g \in 1..Len(stream[m].segs) :
                  LET k == stream[m]
                      s == k.segs[g]
                      j == k.done[g]
                  IN  (SegmentLength(s) > 0 /\ j > 0) =>
                          OutputSegment(kmem[PassDest(k, j - 1, "keys")], s)
                              = Gather(InputSegment(s),
                                       AloneOrder(InputSegment(s), j, call.descending))

\* two of three passes done in the double-buffer shape: the second pass
\* wrote the buffer the input came from
C30_Witness ==
    /\ call.shape = "double" /\ call.round = 1
    /\ Len(stream) = 1 /\ stream[1].kind = "uniform"
    /\ long_iterations + short_iterations = 3
    /\ SegmentLength(1) = 3 /\ stream[1].done[1] = 2
    /\ PassDest(stream[1], 1, "keys") = "A"
    /\ kmem["A"] # call.keys /\ kmem["B"] # call.keys /\ kmem["A"] # kmem["B"]

\* steps the claim gives group g of kernel k: none for a group without a
\* segment or with an empty one, one for a sub-group of the small kernel,
\* long_iterations + short_iterations passes otherwise
StepsToDo(k, g) ==
    IF g > Len(k.segs) \/ SegmentLength(k.segs[g]) <= 0 THEN 0
    ELSE IF k.kind = "small" THEN 1
    ELSE long_iterations + short_iterations

\* the call ended in DONE, in EMPTY or with an error
EndedDone == Finished /\ result = hipSuccess /\ call.segments > 0
EndedEmpty == Finished /\ result = hipSuccess /\ call.segments = 0
EndedError == Finished /\ result # hipSuccess

\* a step of the device: the oldest kernel on the stream moves
DeviceStep == stream # <<>> /\ stream' # stream /\ Len(stream') <= Len(stream)

\* C31: every call terminates.  No worker group does more than its steps
\* (long_iterations + short_iterations passes, one step for a sub-group of
\* the small kernel); a device step is one more step of one group that
\* still has steps to do, and a kernel leaves the stream exactly when the
\* last of its groups has done all of them; under fair scheduling of the
\* host thread and of the worker groups every call eventually reaches DONE,
\* EMPTY or an error return; and a state in which nothing can happen is
\* one of these.
C31_EveryCallTerminates ==
    /\ [](\A m \in 1..Len(stream) : \A g \in 1..Len(stream[m].done) :
             stream[m].done[g] <= StepsToDo(stream[m], g))
    /\ [][DeviceStep =>
             LET k == Head(stream)
             IN  \E g \in 1..Len(k.done) :
                   /\ k.done[g] < StepsToDo(k, g)
                   /\ LET after == [k EXCEPT !.done[g] = @ + 1]
                      IN  IF \A h \in 1..Len(k.done) : after.done[h] = StepsToDo(k, h)
                          THEN stream' = Tail(stream)
                          ELSE stream' = <<after>> \o Tail(stream)]_vars
    /\ (pc = "impl") ~> (EndedDone \/ EndedEmpty \/ EndedError)
    /\ []((~ENABLED Next) => (EndedDone \/ EndedEmpty \/ EndedError))

\* a debug call on the classified path has drained the stream twice and
\* ended in DONE
C31_Witness ==
    /\ EndedDone /\ Executed /\ call.debug_synchronous
    /\ OpNames = <<"sync", "partition", "memcpy", "sync", "large", "sync", "small", "sync">>
    /\ kmem # InitialKeys
    /\ ~ENABLED Next

\* the bits processed by a schedule of iterations passes of which s are short
CoversWith(s) ==
    (iterations - s) * config.long_radix_bits + s * config.short_radix_bits >= bits
IsLargestShort(s) ==
    /\ s \in 0..iterations
    /\ CoversWith(s)
    /\ \A t \in (s + 1)..iterations : ~CoversWith(t)
ValidWidths ==
    /\ bits >= 1
    /\ 1 <= config.short_radix_bits
    /\ config.short_radix_bits <= config.long_radix_bits

\* C32 as stated: the scheduled widths add up to at least bits, and
\* short_iterations is the largest s <= iterations whose schedule still
\* covers bits.
C32_ShortIterationsIsLargest ==
    ValidWidths =>
        /\ ScheduledWidth >= bits
        /\ IsLargestShort(short_iterations)

\* C32, amended: the scheduled widths add up to at least bits; when the short
\* width is strictly narrower than the long width, short_iterations is the
\* largest s <= iterations whose schedule still covers bits; when the two
\* widths are equal, short_iterations is 0 (every pass is a long pass)
\* although every s <= iterations would cover bits.
C32_ShortIterationsIsLargestIfNarrower ==
    ValidWidths =>
        /\ ScheduledWidth >= bits
        /\ long_iterations \in 0..iterations
        /\ IF config.short_radix_bits < config.long_radix_bits
           THEN IsLargestShort(short_iterations)
           ELSE short_iterations = 0 /\ IsLargestShort(iterations)

\* a returned call whose schedule mixes one long pass with two short ones
C32_Witness ==
    /\ Finished /\ ValidWidths
    /\ config.long_radix_bits = 3 /\ config.short_radix_bits = 2 /\ bits = 7
    /\ iterations = 3 /\ short_iterations = 2 /\ long_iterations = 1
    /\ ScheduledWidth = bits
    /\ ~CoversWith(3)

\* the wrapper's step of a double-buffer execute call
WrapperStep == pc = "ret" /\ pc' = "done" /\ with_double_buffer /\ Executed
\* every way the impl of a double-buffer execute call hands back to the wrapper
ImplReturn == pc # "ret" /\ pc' = "ret" /\ with_double_buffer /\ Executed

SizeFrom(size, segments, values, double, enabled, threshold, whole) ==
    LET scratch == IF double THEN 0
                   ELSE AlignSize(size * SizeofKey)
                        + (IF values THEN AlignSize(size * SizeofValue) ELSE 0)
        classify == enabled /\ segments >= threshold
        indices == AlignSize(segments * SizeofIndex) + AlignSize(SizeofIndex)
        total == IF ~classify THEN scratch
                 ELSE IF whole THEN scratch + indices + PartitionStorageSize(segments)
                 ELSE scratch + indices
    IN  IF whole /\ total = 0 THEN Sentinel ELSE total
SizeOfCall(whole) ==
    SizeFrom(call.size, call.segments, call.with_values, call.shape = "double",
             config.warp_enabled, config.partitioning_threshold, whole)

\* C34: the storage_size a returned sizing call leaves is a function of the
\* element count, the segment count, keys-only or pairs, the call shape and
\* the configuration (and of whether the partition's size query failed):
\* begin_bit, end_bit, the direction, the key values and the offsets do not
\* enter, so equal such inputs give equal sizes; and every region a
\* finished execute call used lies within the size so reported.
C34_SizeDependsOnCountsAndShape ==
    /\ (~Executed /\ Returned) => storage_size = SizeOfCall(result = hipSuccess)
    /\ (Finished /\ Executed /\ IsCarved) =>
         \A i \in 1..Len(Regions) :
            Regions[i].used =>
               /\ Regions[i].at >= 0
               /\ Regions[i].at + Regions[i].bytes <= SizeOfCall(TRUE)

\* a descending sizing call over the second key array, two passes, segments
\* of different lengths: the size is that of 3 elements and 2 segments
C34_Witness ==
    /\ ~Executed /\ Finished /\ Succeeded
    /\ call.descending /\ call.shape = "separate" /\ call.with_values
    /\ call.keys = <<1, 1, 1>> /\ call.end_bit = 2
    /\ call.begin_offsets = <<0, 1>> /\ call.end_offsets = <<1, 3>>
    /\ do_partitioning
    /\ storage_size = SizeFrom(3, 2, TRUE, FALSE, TRUE, config.partitioning_threshold, TRUE)
    /\ storage_size > 4 * Alignment

PairsDoubleBuffer == call.shape = "double" /\ call.with_values

\* C35: in a pairs double-buffer call every step either swaps both the key
\* handle and the value handle or leaves both alone (sizing calls and all
\* steps but the wrapper's leave both alone), so through every sequence of
\* calls on the same handles the two selectors stay equal: current() of keys
\* and current() of values remain corresponding buffers.
C35_HandlesSwapTogether ==
    /\ [][PairsDoubleBuffer =>
            /\ (keys_sel' # keys_sel) = (values_sel' # values_sel)
            /\ (keys_sel' # keys_sel) => (pc = "ret" /\ pc' = "done" /\ Executed)]_vars
    /\ [](PairsDoubleBuffer =>
            /\ keys_sel = values_sel
            /\ call.entry.keys = call.entry.values)

\* a second pairs call on the handles has returned: both handles were swapped
\* by the first call and swapped back by the second
C35_Witness ==
    /\ PairsDoubleBuffer /\ Executed /\ Finished
    /\ call.round = 2 /\ iterations % 2 = 1
    /\ call.entry.keys = 2 /\ call.entry.values = 2
    /\ keys_sel = 1 /\ values_sel = 1
    /\ call.segments > 0 /\ call.size > 0

\* array positions whose key or value differs, in some buffer, after the step
WrittenPositions ==
    {i \in 1..call.size :
        \E b \in Buffers :
           \/ kmem'[b][i] # kmem[b][i]
           \/ call.with_values /\ vmem'[b][i] # vmem[b][i]}
\* the step is one step of group g of the oldest kernel on the stream
StepOfGroup(g) ==
    LET k == Head(stream)
        after == [k EXCEPT !.done[g] = @ + 1]
    IN  /\ k.done[g] < StepsToDo(k, g)
        /\ stream' = IF \A h \in 1..Len(k.done) : after.done[h] = StepsToDo(k, h)
                      THEN Tail(stream)
                      ELSE <<after>> \o Tail(stream)
\* positions that belong to no segment (those of empty segments included)
OutsideSegments == {i \in 1..call.size : SegmentOf(i) = 0}

\* C36: every step of a worker group changes array positions of its own
\* segment [begin_offset, end_offset) only, in every buffer; the group of
\* an empty segment takes no step; no host step changes an array; hence
\* the positions that belong to no segment hold in every buffer what they
\* held when the handles were first passed in: in the separate-output shape
\* keys_output / values_output keep their pre-call contents there and
\* keys_input / values_input are not copied over them.
C36_WritesStayInsideOwnSegment ==
    /\ [][/\ DeviceStep =>
               \E g \in 1..Len(Head(stream).done) :
                  /\ StepOfGroup(g)
                  /\ SegmentLength(Head(stream).segs[g]) > 0
                  /\ WrittenPositions \subseteq SegPositions(Head(stream).segs[g])
           /\ ~DeviceStep => (kmem' = kmem /\ vmem' = vmem)]_vars
    /\ [](\A i \in OutsideSegments : \A b \in Buffers :
             /\ kmem[b][i] = InitialKeys[b][i]
             /\ call.with_values => vmem[b][i] = InitialValues[b][i])

\* separate output, an empty segment and a position outside every segment:
\* the sort is finished and keys_output still holds junk at that position
C36_Witness ==
    /\ Finished /\ Executed /\ Succeeded
    /\ call.shape = "separate" /\ call.with_values
    /\ call.begin_offsets = <<1, 1>> /\ call.end_offsets = <<1, 3>>
    /\ OutsideSegments = {1}
    /\ kmem["B"][1] = Junk /\ vmem["B"][1] = Junk /\ call.keys[1] # Junk
    /\ kmem["B"][2] # Junk /\ kmem["B"][3] # Junk
    /\ kmem["B"] # kmem["A"]
====
